---- MODULE Spec2Model ----
(***************************************************************************)
(* Model of the browser client of the retail inventory / billing system:   *)
(*   - src/src/lib/api.ts: the axios client (request interceptor, response *)
(*     normalisation, 401 refresh-and-replay), the list cache (cachedGet)  *)
(*     and the dashboard warm-up (warmDashboardLists);                     *)
(*   - src/src/components/Header.tsx: the printable invoice view BillPage  *)
(*     (loading, print readiness, auto-print, print lifecycle).            *)
(* Each part has its own specification over the shared variables:          *)
(*   SpecAuth, SpecCache, SpecNorm, SpecWarm, SpecBill and SpecBillFair.   *)
(***************************************************************************)
EXTENDS Integers, Sequences, FiniteSets, TLC

VARIABLES
    \* ---- api.ts: the client ----
    access_token,    \* localStorage 'access_token' (Null when not stored)
    refresh_token,   \* localStorage 'refresh_token' (Null when not stored)
    location,        \* window.location.href
    now,             \* Date.now(), in ms
    listCache,       \* the Map listCache: key -> [timestamp, response]
    reqs,            \* the calls made through the client, one record per call
    lastFetched,     \* history: key -> arrival time of the last cached GET answered
                     \* by the network since the last non-GET was sent
    invalidated,     \* history: the keys that held an entry younger than the TTL
                     \* when a non-GET was sent and were not asked for since
    \* ---- api.ts: response normalisation on its own ----
    normIn,          \* the payload the server sent
    normOut,         \* the response the success handler returned
    \* ---- api.ts: warmDashboardLists ----
    warmPc,          \* "idle" | "awaiting" | "returned"
    warmRole,        \* options.role
    warmHasShop,     \* options.hasShop
    warmFetch,       \* line of the warm-up list -> "none" | "inflight" | "ok" | "failed"
    warmTasks,       \* the lines whose promise was pushed to tasks (with a catch)
    warmUnhandled,   \* the lines whose promise rejected with no handler attached
    \* Header.tsx, BillPage
    billPc,          \* "init" | "mounted" | "unmounted" | "closed"
    autoPrint,       \* searchParams.get('autoprint') === '1'
    billClosable,    \* the window was opened by a script: window.close() closes it
    sale, loading, companyProfile, profileLoaded, logoLoaded, logoError,
    autoPrintTriggered,   \* the useState values (an update that is queued included)
    rendered,        \* the state of the last committed render
    flushed,         \* the state of the last render whose effects have run
    effectsPending,  \* the effects of the committed render have not run yet
    fetches,         \* fetchBill / fetchCompanyProfile: "idle" | "inflight" | "done"
                     \* (fetchBill: its outcome "ok" | "empty" | "fail" for "done")
    imgSt,           \* the logo <img>: "absent", "fetching", or "done" once its
                     \* load or error event has been delivered
    timer,           \* the auto-print timer: "none" | "waiting" | "due"
    printing,        \* "no", or who opened the print dialog: "auto" | "manual"
    documentTitle,   \* document.title
    listeners,       \* the afterprint listeners of the window
    autoPrints,      \* prints started by the auto-print timer
    manualPrints,    \* prints started by the Print Bill button
    routeId,         \* params.id of the route that is shown
    orphans,         \* the sale fetches of the views of earlier routes, by id:
                     \* "none" | "inflight" | "ignored" (settled before the view
                     \* of the new route had its sale) | "late" (settled after)
    \* Header.tsx, BillPage: the tax columns of a line of the invoice
    gstPc,           \* "row": a line item is about to be rendered | "done"
    gstItem,         \* the line item given to calculateGSTBreakdown
    gstOut,          \* what calculateGSTBreakdown returned for it
    gstTaxable,      \* taxableValue of the row
    \* Header.tsx, getMediaBase / buildMediaUrl: one call
    mediaEnv,        \* process.env.NEXT_PUBLIC_API_URL of the build ('' when not set)
    mediaPc,         \* "call": buildMediaUrl is about to be called | "done"
    mediaPath,       \* its argument
    mediaOut,        \* what it returned
    \* Header.tsx, Header and SettingsPage
    user,            \* useAuth().user: NoUser, or a user with its role
    settingsPc,      \* "init" | "waiting" (no user yet) | "fetching" | "ready" |
                     \* "denied" ("Admin settings only")
    shops,           \* the ids of the shops the page lists
    savingShopId,    \* the useState value (NoShop for null)
    shopSaves        \* by shop, its shopsAPI.update calls that are in flight

apiVars  == <<access_token, refresh_token, location, now, listCache, reqs,
              lastFetched, invalidated>>
normVars == <<normIn, normOut>>
warmVars == <<warmPc, warmRole, warmHasShop, warmFetch, warmTasks, warmUnhandled>>
billVars == <<billPc, autoPrint, billClosable, sale, loading, companyProfile,
              profileLoaded, logoLoaded, logoError, autoPrintTriggered, rendered,
              flushed, effectsPending, fetches, imgSt, timer, printing,
              documentTitle, listeners, autoPrints, manualPrints, routeId, orphans>>
gstVars  == <<gstPc, gstItem, gstOut, gstTaxable>>
mediaVars == <<mediaEnv, mediaPc, mediaPath, mediaOut>>
settingsVars == <<user, settingsPc, shops, savingShopId, shopSaves>>
vars     == <<apiVars, normVars, warmVars, billVars, gstVars, mediaVars, settingsVars>>
NotPage  == <<apiVars, normVars, warmVars, gstVars, mediaVars, settingsVars>>
NotBill  == <<NotPage, routeId, orphans>>

----------------------------------------------------------------------------
(* Bounds of the model *)

\* number of calls that can be outstanding at once
MaxReq == 2
\* number of clock steps (each of half the TTL)
MaxTicks == 2
\* presses of the Print Bill button in one view
MaxManualPrints == 2
\* prints the auto-print timer may start in one view before the model stops counting
MaxAutoPrints == 2
MaxRoute == 2

----------------------------------------------------------------------------
(* JSON payloads: every value is [t |-> kind, v |-> sequence]; an object   *)
(* of the shapes the server sends is a record of its fields, Absent when   *)
(* the key is not in the object.                                           *)

Null      == [t |-> "null", v |-> <<>>]
Absent    == [t |-> "absent", v |-> <<>>]
Num(n)    == [t |-> "number", v |-> <<n>>]
Str(n)    == [t |-> "string", v |-> <<n>>]
Arr(s)    == [t |-> "array", v |-> s]
Obj(r, c, n, p, o) ==
    [t |-> "object", results |-> r, count |-> c, next |-> n, previous |-> p, id |-> o]

IsArray(x)  == x.t = "array"
IsObject(x) == x.t \in {"object", "array"}      \* typeof x === 'object' && x
Truthy(x)   == x.t \notin {"null", "absent"} /\ x # Num(0)
HasKey(x, k) == x.t = "object" /\
    (CASE k = "results"  -> x.results # Absent
       [] k = "count"    -> x.count # Absent
       [] k = "next"     -> x.next # Absent
       [] k = "previous" -> x.previous # Absent
       [] OTHER          -> x.id # Absent)
\* reading a property: undefined (Absent) when the key is not there
Prop(x, k) ==
    IF x.t # "object" THEN Absent
    ELSE CASE k = "results"  -> x.results
           [] k = "count"    -> x.count
           [] k = "next"     -> x.next
           [] k = "previous" -> x.previous
           [] OTHER          -> x.id

\* an AxiosResponse as the caller sees it: data, and the pagination
\* descriptor when the success handler attached one
NoPagination == [attached |-> FALSE, count |-> Absent, next |-> Absent, previous |-> Absent]
RawResponse(data, config) == [data |-> data, pagination |-> NoPagination, config |-> config]

\* api.interceptors.response, success handler
NormalizeDropMeta(response) ==
    LET data == response.data IN
    IF Truthy(data) /\ IsObject(data) /\ ~IsArray(data)
       /\ HasKey(data, "results") /\ IsArray(Prop(data, "results"))
    THEN [response EXCEPT !.data = Prop(data, "results")]
    ELSE response
Normalize(response) ==
    LET data == response.data IN
    IF Truthy(data) /\ IsObject(data) /\ ~IsArray(data)
       /\ HasKey(data, "results") /\ IsArray(Prop(data, "results"))
    THEN [response EXCEPT
            !.pagination = [attached |-> TRUE, count |-> Prop(data, "count"),
                            next |-> Prop(data, "next"), previous |-> Prop(data, "previous")],
            !.data = Prop(data, "results")]
    ELSE response

\* the payloads the normalisation is examined on
Arrays  == {Arr(<<>>), Arr(<<1>>), Arr(<<1, 2>>)}
Scalars == {Null, Num(0), Num(2), Str(1)}
Objects == {Obj(r, c, n, p, o) :
              r \in Arrays \cup {Absent, Null, Num(2)},
              c \in {Absent, Num(0), Num(2)},
              n \in {Absent, Null, Str(1)},
              p \in {Absent, Null, Str(2)},
              o \in {Absent, Num(2)}}
Payloads == Arrays \cup Scalars \cup Objects

----------------------------------------------------------------------------
(* api.ts: the client *)

LIST_CACHE_TTL_MS == 15000
\* the clock advances in steps of half the TTL: ages 0, TTL/2, TTL, ...
TickMs == LIST_CACHE_TTL_MS \div 2

NoToken == ""
ReqIds  == 1..MaxReq

\* an AxiosRequestConfig as the callers of this file build it
NoConfig       == [hasParams |-> FALSE, hasSearch |-> FALSE, search |-> ""]
ParamsOf(s)    == [hasParams |-> TRUE, hasSearch |-> TRUE, search |-> s]
ParamsNoSearch == [hasParams |-> TRUE, hasSearch |-> FALSE, search |-> ""]

\* JSON.stringify of a params object { search }: an undefined value is left out
JSONStringify(cfg) ==
    IF cfg.hasSearch THEN "{\"search\":\"" \o cfg.search \o "\"}" ELSE "{}"

\* a key made of the path alone
buildCacheKeyByPath(url, cfg) == url \o "|"
buildCacheKey(url, cfg) ==
    LET params == IF cfg.hasParams THEN JSONStringify(cfg) ELSE ""
    IN  url \o "|" \o params

EmptyMap == [k \in {} |-> 0]
MapSet(m, key, e) == [k \in DOMAIN m \cup {key} |-> IF k = key THEN e ELSE m[k]]

clearListCache == EmptyMap

\* cachedGet, line 28: the entry is served when it exists and is younger than the TTL
CacheHitInclusive(cache, key, t, ttlMs) ==
    key \in DOMAIN cache /\ t - cache[key].timestamp <= ttlMs
CacheHitAtAnyAge(cache, key, t, ttlMs) == key \in DOMAIN cache
CacheHit(cache, key, t, ttlMs) ==
    key \in DOMAIN cache /\ t - cache[key].timestamp < ttlMs

\* request interceptor: any method but GET purges the list cache
CacheAfterRequestOfAnyMethod(method, cache) == clearListCache
CacheAfterRequest(method, cache) ==
    IF method # "get" THEN clearListCache ELSE cache

NoResponse == RawResponse(Absent, [url |-> "", cfg |-> NoConfig, method |-> ""])
NoError    == [code |-> "", attempt |-> 0]
NoOut      == [kind |-> "none", response |-> NoResponse, err |-> NoError]
Resolved(resp) == [kind |-> "response", response |-> resp, err |-> NoError]
RejectedWithoutCause(code, attempt) ==
    [kind |-> "error", response |-> NoResponse, err |-> [code |-> "error", attempt |-> attempt]]
Rejected(code, attempt) ==
    [kind |-> "error", response |-> NoResponse, err |-> [code |-> code, attempt |-> attempt]]

\* one call through the client.  sends: transmissions of the request; refreshes:
\* refresh calls made for it; retry: originalRequest._retry; out: what the caller
\* gets.  History of the call: got401 (how the first 401 found the refresh token:
\* "" | "token" | "notoken"), seen (what lastFetched said of the key when
\* cachedGet was called: "" | "none" | "fresh" | "stale"), refetch (the key was
\* in invalidated when cachedGet was called), purged (the list cache was empty
\* when the request interceptor had run for a request that is not a GET).
\* auth: config.headers.Authorization of the latest transmission.  History:
\* tokenAtSend (the stored access token when the latest transmission was sent),
\* replayFresh (the header of the replay differs from the header of the
\* transmission that was answered 401), netErr (the error the network
\* delivered last), overlap (cachedGet was called while another cached
\* GET for the same key was waiting for its response), overtaken (a response
\* for the key of this cached GET was stored after it was sent), beforeWrite
\* (a non-GET was sent while this GET was waiting for its response).
IdleReq == [st |-> "idle", method |-> "", url |-> "", cfg |-> NoConfig, cached |-> FALSE,
            retry |-> FALSE, sends |-> 0, refreshes |-> 0, out |-> NoOut,
            got401 |-> "", seen |-> "", refetch |-> FALSE, purged |-> FALSE,
            auth |-> "", tokenAtSend |-> NoToken, replayFresh |-> FALSE, netErr |-> "",
            overlap |-> FALSE, overtaken |-> FALSE, beforeWrite |-> FALSE]

Settled(r)  == reqs[r].st \in {"resolved", "rejected"}
Free(r)     == reqs[r].st = "idle"
\* a new call takes the first record that is not in use
FreeSlot(r) == Free(r) /\ \A q \in ReqIds : q < r => ~Free(q)
\* a settled promise runs its caller's continuation before any other event is
\* handled (microtask), so nothing else happens while a call is settled
Quiet == \A r \in ReqIds : ~Settled(r)

Methods    == {"get", "post"}
\* cachedGet as the list() functions call it ({ params: { search } }) and as
\* warmDashboardLists and the parameterless list() functions call it (no config)
CachedCalls == {<<"/products/", ParamsNoSearch>>, <<"/products/", NoConfig>>,
                <<"/shops/", ParamsNoSearch>>}
\* what the server may answer to a list request
ApiPayloads == {Obj(Arr(<<1, 2>>), Num(2), Null, Null, Absent)}
ErrorCodes  == {"e401", "e500", "network"}

Others == <<normVars, warmVars, billVars, gstVars, mediaVars, settingsVars>>

\* what the history says of a key at a call of cachedGet
SeenAt(key) ==
    IF key \notin DOMAIN lastFetched THEN "none"
    ELSE IF now - lastFetched[key] < LIST_CACHE_TTL_MS THEN "fresh" ELSE "stale"
\* the keys holding an entry younger than the TTL
FreshKeys == {k \in DOMAIN listCache : now - listCache[k].timestamp < LIST_CACHE_TTL_MS}

\* request interceptor, lines 47-50: the stored token, when there is one,
\* becomes the Authorization header; otherwise the header stays as it was
AuthHeaderUntouched(token, prev) == prev
AuthHeader(token, prev) == IF token # NoToken THEN "Bearer " \o token ELSE prev

\* a cached GET for the key is waiting for the response of its transmission,
\* and no response for the key has been stored since it was sent
InFlight(key) ==
    \E q \in ReqIds : /\ reqs[q].cached /\ reqs[q].st = "sent" /\ ~reqs[q].overtaken
                      /\ buildCacheKey(reqs[q].url, reqs[q].cfg) = key

\* api.<method>(url, config): the request interceptor runs, then the request is sent
Dispatch(r, method, url, cfg, cached) ==
    /\ reqs' = [p \in ReqIds |->
            IF p = r
            THEN [IdleReq EXCEPT !.st = "sent", !.method = method, !.url = url, !.cfg = cfg,
                            !.cached = cached, !.sends = 1,
                            !.seen = IF cached THEN SeenAt(buildCacheKey(url, cfg)) ELSE "",
                            !.refetch = cached /\ buildCacheKey(url, cfg) \in invalidated,
                            !.auth = AuthHeader(access_token, ""),
                            !.tokenAtSend = access_token,
                            !.overlap = cached /\ InFlight(buildCacheKey(url, cfg)),
                            !.purged = (method # "get"
                                        /\ CacheAfterRequest(method, listCache) = EmptyMap)]
            ELSE IF method # "get" /\ reqs[p].st = "sent" /\ reqs[p].method = "get"
            THEN [reqs[p] EXCEPT !.beforeWrite = TRUE]
            ELSE reqs[p]]
    /\ listCache' = CacheAfterRequest(method, listCache)
    /\ lastFetched' = IF method # "get" THEN EmptyMap ELSE lastFetched
    /\ invalidated' = IF method # "get" THEN invalidated \cup FreshKeys
                      ELSE IF cached THEN invalidated \ {buildCacheKey(url, cfg)}
                      ELSE invalidated

\* cachedGet(url, config): served from the cache, or sent as a GET
cachedGetSingleFlight(r, url, cfg) ==
    /\ Quiet /\ FreeSlot(r)
    /\ LET key == buildCacheKey(url, cfg) IN
       IF CacheHit(listCache, key, now, LIST_CACHE_TTL_MS)
       THEN /\ reqs' = [reqs EXCEPT ![r] =
                   [IdleReq EXCEPT !.st = "resolved", !.method = "get", !.url = url,
                                   !.cfg = cfg, !.cached = TRUE,
                                   !.seen = SeenAt(key), !.refetch = key \in invalidated,
                                   !.overlap = InFlight(key),
                                   !.out = Resolved(listCache[key].response)]]
            /\ invalidated' = invalidated \ {key}
            /\ UNCHANGED <<listCache, lastFetched>>
       ELSE IF InFlight(key)
       THEN /\ reqs' = [reqs EXCEPT ![r] =
                   [IdleReq EXCEPT !.st = "sent", !.method = "get", !.url = url,
                                   !.cfg = cfg, !.cached = TRUE, !.seen = SeenAt(key),
                                   !.overlap = TRUE]]
            /\ UNCHANGED <<listCache, lastFetched, invalidated>>
       ELSE Dispatch(r, "get", url, cfg, TRUE)
    /\ UNCHANGED <<access_token, refresh_token, location, now, Others>>
cachedGet(r, url, cfg) ==
    /\ Quiet /\ FreeSlot(r)
    /\ LET key == buildCacheKey(url, cfg) IN
       IF CacheHit(listCache, key, now, LIST_CACHE_TTL_MS)
       THEN /\ reqs' = [reqs EXCEPT ![r] =
                   [IdleReq EXCEPT !.st = "resolved", !.method = "get", !.url = url,
                                   !.cfg = cfg, !.cached = TRUE,
                                   !.seen = SeenAt(key), !.refetch = key \in invalidated,
                                   !.overlap = InFlight(key),
                                   !.out = Resolved(listCache[key].response)]]
            /\ invalidated' = invalidated \ {key}
            /\ UNCHANGED <<listCache, lastFetched>>
       ELSE Dispatch(r, "get", url, cfg, TRUE)
    /\ UNCHANGED <<access_token, refresh_token, location, now, Others>>

\* api.get / api.post called directly
ApiCall(r, method, url) ==
    /\ Quiet /\ FreeSlot(r)
    /\ Dispatch(r, method, url, NoConfig, FALSE)
    /\ UNCHANGED <<access_token, refresh_token, location, now, Others>>

\* a 2xx response: the success handler, then cachedGet's listCache.set
RespondOk(r, payload) ==
    /\ Quiet /\ reqs[r].st = "sent"
    /\ LET q == reqs[r]
           response == Normalize(RawResponse(payload,
                          [url |-> q.url, cfg |-> q.cfg, method |-> q.method]))
           key == buildCacheKey(q.url, q.cfg)
       IN  /\ reqs' = [p \in ReqIds |->
                  IF p = r THEN [q EXCEPT !.st = "resolved", !.out = Resolved(response)]
                  ELSE IF q.cached /\ reqs[p].cached /\ reqs[p].st = "sent"
                          /\ buildCacheKey(reqs[p].url, reqs[p].cfg) = key
                  THEN [reqs[p] EXCEPT !.overtaken = TRUE]
                  ELSE reqs[p]]
           /\ IF q.cached
              THEN /\ listCache' = MapSet(listCache, key,
                                          [timestamp |-> now, response |-> response])
                   /\ lastFetched' = MapSet(lastFetched, key, now)
              ELSE UNCHANGED <<listCache, lastFetched>>
    /\ UNCHANGED <<access_token, refresh_token, location, now, invalidated, Others>>

\* the error handler, line 92: a 401 on a request not yet retried
ShouldRecoverIgnoringRetry(code, retry) == code = "e401"
ShouldRecover(code, retry) == code = "e401" /\ ~retry

\* an error response (or no response at all): the error handler
\* a client that shares one refresh call between the requests that wait for it
RespondErrorSharedRefresh(r, code) ==
    /\ Quiet /\ reqs[r].st = "sent"
    /\ LET q == reqs[r]
           shared == \E p \in ReqIds : p # r /\ reqs[p].st = "refreshing" IN
       IF ShouldRecover(code, q.retry)
       THEN IF refresh_token # NoToken
            THEN reqs' = [reqs EXCEPT ![r].st = "refreshing", ![r].retry = TRUE,
                                      ![r].refreshes = IF shared THEN @ ELSE @ + 1,
                                      ![r].netErr = code,
                                      ![r].got401 = IF @ = "" THEN "token" ELSE @]
            ELSE reqs' = [reqs EXCEPT ![r].st = "rejected", ![r].retry = TRUE,
                                      ![r].netErr = code,
                                      ![r].got401 = IF @ = "" THEN "notoken" ELSE @,
                                      ![r].out = Rejected(code, q.sends)]
       ELSE reqs' = [reqs EXCEPT ![r].st = "rejected", ![r].netErr = code,
                                 ![r].out = Rejected(code, q.sends)]
    /\ UNCHANGED <<access_token, refresh_token, location, now, listCache,
                   lastFetched, invalidated, Others>>
\* a client that signs the user out whenever a request ends in an error
RespondErrorSignsOut(r, code) ==
    /\ Quiet /\ reqs[r].st = "sent"
    /\ LET q == reqs[r]
           recover == ShouldRecover(code, q.retry) /\ refresh_token # NoToken IN
       /\ IF ShouldRecover(code, q.retry)
          THEN IF refresh_token # NoToken
               THEN reqs' = [reqs EXCEPT ![r].st = "refreshing", ![r].retry = TRUE,
                                         ![r].refreshes = @ + 1, ![r].netErr = code,
                                         ![r].got401 = IF @ = "" THEN "token" ELSE @]
               ELSE reqs' = [reqs EXCEPT ![r].st = "rejected", ![r].retry = TRUE,
                                         ![r].netErr = code,
                                         ![r].got401 = IF @ = "" THEN "notoken" ELSE @,
                                         ![r].out = Rejected(code, q.sends)]
          ELSE reqs' = [reqs EXCEPT ![r].st = "rejected", ![r].netErr = code,
                                    ![r].out = Rejected(code, q.sends)]
       /\ access_token' = IF recover THEN access_token ELSE NoToken
       /\ refresh_token' = IF recover THEN refresh_token ELSE NoToken
       /\ location' = IF recover THEN location ELSE "/login"
    /\ UNCHANGED <<now, listCache, lastFetched, invalidated, Others>>
\* a client that sends the refresh call through its own instance, whose
\* request interceptor empties the list cache for every POST
RespondErrorRefreshThroughClient(r, code) ==
    /\ Quiet /\ reqs[r].st = "sent"
    /\ LET q == reqs[r]
           recover == ShouldRecover(code, q.retry) /\ refresh_token # NoToken IN
       /\ IF ShouldRecover(code, q.retry)
          THEN IF refresh_token # NoToken
               THEN reqs' = [reqs EXCEPT ![r].st = "refreshing", ![r].retry = TRUE,
                                         ![r].refreshes = @ + 1, ![r].netErr = code,
                                         ![r].got401 = IF @ = "" THEN "token" ELSE @]
               ELSE reqs' = [reqs EXCEPT ![r].st = "rejected", ![r].retry = TRUE,
                                         ![r].netErr = code,
                                         ![r].got401 = IF @ = "" THEN "notoken" ELSE @,
                                         ![r].out = Rejected(code, q.sends)]
          ELSE reqs' = [reqs EXCEPT ![r].st = "rejected", ![r].netErr = code,
                                    ![r].out = Rejected(code, q.sends)]
       /\ listCache' = IF recover THEN CacheAfterRequest("post", listCache) ELSE listCache
    /\ UNCHANGED <<access_token, refresh_token, location, now,
                   lastFetched, invalidated, Others>>
\* a client that caches what a cached GET ends with, a rejection included
RespondErrorCached(r, code) ==
    /\ Quiet /\ reqs[r].st = "sent"
    /\ LET q == reqs[r]
           passedOn == ~(ShouldRecover(code, q.retry) /\ refresh_token # NoToken) IN
       /\ IF ShouldRecover(code, q.retry)
          THEN IF refresh_token # NoToken
               THEN reqs' = [reqs EXCEPT ![r].st = "refreshing", ![r].retry = TRUE,
                                         ![r].refreshes = @ + 1, ![r].netErr = code,
                                         ![r].got401 = IF @ = "" THEN "token" ELSE @]
               ELSE reqs' = [reqs EXCEPT ![r].st = "rejected", ![r].retry = TRUE,
                                         ![r].netErr = code,
                                         ![r].got401 = IF @ = "" THEN "notoken" ELSE @,
                                         ![r].out = Rejected(code, q.sends)]
          ELSE reqs' = [reqs EXCEPT ![r].st = "rejected", ![r].netErr = code,
                                    ![r].out = Rejected(code, q.sends)]
       /\ listCache' = IF q.cached /\ passedOn
                        THEN MapSet(listCache, buildCacheKey(q.url, q.cfg),
                                    [timestamp |-> now, response |-> NoResponse])
                        ELSE listCache
    /\ UNCHANGED <<access_token, refresh_token, location, now,
                   lastFetched, invalidated, Others>>
RespondError(r, code) ==
    /\ Quiet /\ reqs[r].st = "sent"
    /\ LET q == reqs[r] IN
       IF ShouldRecover(code, q.retry)
       THEN IF refresh_token # NoToken
            THEN \* axios.post(`${API_URL}/auth/refresh/`): not through the interceptors
                 reqs' = [reqs EXCEPT ![r].st = "refreshing", ![r].retry = TRUE,
                                      ![r].refreshes = @ + 1, ![r].netErr = code,
                                      ![r].got401 = IF @ = "" THEN "token" ELSE @]
            ELSE \* no refresh token: falls out of the try block to line 114
                 reqs' = [reqs EXCEPT ![r].st = "rejected", ![r].retry = TRUE,
                                      ![r].netErr = code,
                                      ![r].got401 = IF @ = "" THEN "notoken" ELSE @,
                                      ![r].out = Rejected(code, q.sends)]
       ELSE reqs' = [reqs EXCEPT ![r].st = "rejected", ![r].netErr = code,
                                 ![r].out = Rejected(code, q.sends)]
    /\ UNCHANGED <<access_token, refresh_token, location, now, listCache,
                   lastFetched, invalidated, Others>>

\* the access token the refresh call returns for request r: a new one, neither
\* the stored token nor the token the request was sent with
Token(n) == "a" \o ToString(n)
NewToken(r) ==
    Token(CHOOSE n \in 1..3 :
            /\ Token(n) \notin {access_token, reqs[r].tokenAtSend}
            /\ \A m \in 1..(n - 1) : Token(m) \in {access_token, reqs[r].tokenAtSend})

\* the refresh call succeeds: store the access token and replay the request
\* through the client (the request interceptor runs again)
RefreshOk(r, access) ==
    /\ Quiet /\ reqs[r].st = "refreshing"
    /\ access_token' = access
    /\ reqs' = [p \in ReqIds |->
            IF p = r
            THEN [reqs[r] EXCEPT !.st = "sent", !.sends = @ + 1,
                            !.auth = AuthHeader(access, "Bearer " \o access),
                            !.replayFresh =
                                (AuthHeader(access, "Bearer " \o access) # reqs[r].auth),
                            !.tokenAtSend = access,
                            !.beforeWrite = FALSE,
                            !.purged = (reqs[r].method # "get"
                               /\ CacheAfterRequest(reqs[r].method, listCache) = EmptyMap)]
            ELSE IF reqs[r].method # "get" /\ reqs[p].st = "sent" /\ reqs[p].method = "get"
            THEN [reqs[p] EXCEPT !.beforeWrite = TRUE]
            ELSE reqs[p]]
    /\ listCache' = CacheAfterRequest(reqs[r].method, listCache)
    /\ lastFetched' = IF reqs[r].method # "get" THEN EmptyMap ELSE lastFetched
    /\ invalidated' = IF reqs[r].method # "get" THEN invalidated \cup FreshKeys
                      ELSE invalidated
    /\ UNCHANGED <<refresh_token, location, now, Others>>

\* the refresh call of request r answers with a new access token
Refreshed(r) == \E access \in {NewToken(r)} : RefreshOk(r, access)

\* the refresh call fails: the catch block
RefreshFailKeepsRefreshToken(r) ==
    /\ Quiet /\ reqs[r].st = "refreshing"
    /\ access_token' = NoToken
    /\ location' = "/login"
    /\ reqs' = [reqs EXCEPT ![r].st = "rejected", ![r].out = Rejected("refreshError", 0)]
    /\ UNCHANGED <<refresh_token, now, listCache, lastFetched, invalidated, Others>>
RefreshFail(r) ==
    /\ Quiet /\ reqs[r].st = "refreshing"
    /\ access_token' = NoToken
    /\ refresh_token' = NoToken
    /\ location' = "/login"
    /\ reqs' = [reqs EXCEPT ![r].st = "rejected", ![r].out = Rejected("refreshError", 0)]
    /\ UNCHANGED <<now, listCache, lastFetched, invalidated, Others>>

\* the caller of a settled call takes the result
Return(r) ==
    /\ Settled(r)
    /\ reqs' = [reqs EXCEPT ![r] = IdleReq]
    /\ UNCHANGED <<access_token, refresh_token, location, now, listCache,
                   lastFetched, invalidated, Others>>

Tick ==
    /\ Quiet
    /\ now + TickMs <= MaxTicks * TickMs
    /\ now' = now + TickMs
    /\ UNCHANGED <<access_token, refresh_token, location, listCache, reqs,
                   lastFetched, invalidated, Others>>

----------------------------------------------------------------------------
(* Header.tsx: BillPage, its state and what a render computes from it *)

NoSale == 0           \* sale === null (or an empty payload)
TheSale == 1          \* the object of a successful response
SaleFor(id) == id     \* the sale that salesAPI.invoice(id) returns
Routes == 1..MaxRoute
\* A string is the sequence of its characters.
Str0 == <<>>
startsWith(s, prefix) == Len(s) >= Len(prefix) /\ SubSeq(s, 1, Len(prefix)) = prefix
endsWith(s, suffix) ==
    Len(s) >= Len(suffix) /\ SubSeq(s, Len(s) - Len(suffix) + 1, Len(s)) = suffix
DropLast(s, n) == SubSeq(s, 1, Len(s) - n)

NullProfile == [isNull |-> TRUE, logo |-> Str0]
Profile(logo) == [isNull |-> FALSE, logo |-> logo]
RelativeLogo == <<"/", "m", "e", "d", "i", "a", "/", "l", "o", "g", "o", ".", "p", "n", "g">>
AbsoluteLogo == <<"h", "t", "t", "p", "s", ":", "/", "/", "c", "d", "n", ".", "e", "x",
      "a", "m", "p", "l", "e", "/", "l", "o", "g", "o", ".", "p", "n", "g">>
LogoPaths == {Str0, RelativeLogo, AbsoluteLogo}
OriginalTitle == "Bill"

\* the default of getMediaBase, line 233
DefaultApiUrl ==
    <<"h", "t", "t", "p", "s", ":", "/", "/", "c", "e", "l", "l", "u", "l",
      "a", "r", "-", "m", "o", "b", "i", "l", "e", "-", "b", "a", "c", "k",
      "e", "n", "e", "d", "-", "p", "r", "o", "d", "u", "c", "t", "i", "o",
      "n", ".", "u", "p", ".", "r", "a", "i", "l", "w", "a", "y", ".", "a",
      "p", "p", "/", "a", "p", "i">>

\* apiUrl.replace(/\/api\/?$/, ''): the match is "/api" or "/api/" at the end
StripNothing(apiUrl) == apiUrl
StripApiSuffix(apiUrl) ==
    IF endsWith(apiUrl, <<"/", "a", "p", "i", "/">>) THEN DropLast(apiUrl, 5)
    ELSE IF endsWith(apiUrl, <<"/", "a", "p", "i">>) THEN DropLast(apiUrl, 4)
    ELSE apiUrl

\* getMediaBase(): NEXT_PUBLIC_API_URL or the default, without its /api suffix
getMediaBase == StripApiSuffix(IF mediaEnv # Str0 THEN mediaEnv ELSE DefaultApiUrl)

\* the argument of buildMediaUrl: a string, or null / undefined
NoPath == [missing |-> TRUE, text |-> Str0]
Path(text) == [missing |-> FALSE, text |-> text]

\* buildMediaUrl(path)
buildMediaUrl(path) ==
    IF path.missing \/ path.text = Str0 THEN Str0
    ELSE IF startsWith(path.text, <<"h", "t", "t", "p">>) THEN path.text
    ELSE getMediaBase \o path.text

\* companyProfile?.logo || null
LogoOrNull(s) ==
    IF s.companyProfile.isNull \/ s.companyProfile.logo = Str0
    THEN NoPath ELSE Path(s.companyProfile.logo)

\* the values of the useState hooks, lines 247-253
BillState ==
    [sale |-> sale, loading |-> loading, companyProfile |-> companyProfile,
     profileLoaded |-> profileLoaded, logoLoaded |-> logoLoaded,
     logoError |-> logoError, autoPrintTriggered |-> autoPrintTriggered]

\* logoUrl and logoReady as a render computes them from the state s
logoUrl(s) == buildMediaUrl(LogoOrNull(s))
logoReadyAnyway(s) == TRUE
logoReady(s) == logoUrl(s) = Str0 \/ s.logoLoaded \/ s.logoError

\* what the render returns: the spinner, "Bill not found", or the invoice
ViewNotFoundAfterProfile(s) ==
    IF s.loading \/ (s.sale = NoSale /\ ~s.profileLoaded) THEN "loading"
    ELSE IF s.sale = NoSale THEN "notfound" ELSE "bill"
ViewLoadingUntilProfile(s) ==
    IF s.loading \/ ~s.profileLoaded THEN "loading"
    ELSE IF s.sale = NoSale THEN "notfound" ELSE "bill"
View(s) == IF s.loading THEN "loading" ELSE IF s.sale = NoSale THEN "notfound" ELSE "bill"

\* the <img> of the logo is part of the invoice
HasImg(s) == View(s) = "bill" /\ logoUrl(s) # Str0 /\ ~s.logoError

\* the dependency array of the auto-print effect
AutoPrintDeps(s) == <<autoPrint, s.sale, s.profileLoaded, logoReady(s), s.autoPrintTriggered>>

\* the guard of the auto-print effect, on the values of the render s
ShouldAutoPrintNoLatch(ap, s) ==
    ap /\ s.sale # NoSale /\ s.profileLoaded /\ logoReady(s)
ShouldAutoPrintWithoutSale(ap, s) ==
    ap /\ s.profileLoaded /\ logoReady(s) /\ ~s.autoPrintTriggered
ShouldAutoPrint(ap, s) ==
    ap /\ s.sale # NoSale /\ s.profileLoaded /\ logoReady(s) /\ ~s.autoPrintTriggered

----------------------------------------------------------------------------
(* Header.tsx: calculateGSTBreakdown, and the numbers of JavaScript *)

\* A number of JavaScript is a binary floating-point number: m * 2^e with a
\* significand m of Precision bits (m = 0, or 2^(Precision-1) <= m < 2^Precision),
\* and results are rounded to the nearest such number, ties to even. JavaScript
\* has 53 bits; the rules below are the same for every width. The amounts of
\* an invoice are far from the smallest and largest exponents.
Precision == 12
MaxCents == 99
GstUnits == {0, 7, 100}

Pow2(n) == 2 ^ n

Float(m, e) == [m |-> m, e |-> e]
Zero == Float(0, 0)

\* n / d rounded to the nearest integer, ties to even
RoundDiv(n, d) ==
    LET q == n \div d
        r == n % d
    IN  IF 2 * r < d THEN q
        ELSE IF 2 * r > d THEN q + 1
        ELSE IF q % 2 = 0 THEN q ELSE q + 1

\* the smallest integer that is at least n / d
CeilDiv(n, d) == (n + d - 1) \div d

\* the exponents of the numbers an invoice needs
Exponents == (0 - 24)..14
\* the k for which (n / d) / 2^k lies in [2^(Precision-1), 2^Precision)
FitExp(n, d) ==
    CHOOSE k \in Exponents :
        IF k >= 0
        THEN d * Pow2(k) * Pow2(Precision - 1) <= n /\ n < d * Pow2(k) * Pow2(Precision)
        ELSE /\ CeilDiv(d * Pow2(Precision - 1), Pow2(0 - k)) <= n
             /\ n < CeilDiv(d * Pow2(Precision), Pow2(0 - k))

\* the number nearest to (n / d) * 2^e
ToFloat(n, d, e) ==
    IF n = 0 THEN Zero
    ELSE LET k == FitExp(n, d)
             m == IF k >= 0 THEN RoundDiv(n, d * Pow2(k)) ELSE RoundDiv(n * Pow2(0 - k), d)
         IN  IF m = Pow2(Precision) THEN Float(Pow2(Precision - 1), k + e + 1)
             ELSE Float(m, k + e)

\* a decimal text of the API, such as "100.00": units and hundredths
Dec(units, cents) == [units |-> units, cents |-> cents]
\* the decimal text as a number of hundredths
Hundredths(text) == text.units * 100 + text.cents
\* parseFloat(text)
parseFloat(text) == ToFloat(Hundredths(text), 100, 0)

\* x / 2
HalfAsShare(x) == IF x.m = 0 THEN [nan |-> TRUE] ELSE Float(x.m, x.e - 1)
Half(x) == IF x.m = 0 THEN Zero ELSE Float(x.m, x.e - 1)
\* x + y
Add(x, y) ==
    LET e == IF x.e < y.e THEN x.e ELSE y.e
    IN  ToFloat(x.m * Pow2(x.e - e) + y.m * Pow2(y.e - e), 1, e)

\* x - y, for x >= y
Sub(x, y) ==
    LET e == IF x.e < y.e THEN x.e ELSE y.e
    IN  ToFloat(x.m * Pow2(x.e - e) - y.m * Pow2(y.e - e), 1, e)

\* x.toFixed(2) as a number of hundredths: the integer n for which n / 100 is
\* nearest to x, the larger one of two
toFixed2(x) ==
    IF x.e >= 0 THEN x.m * Pow2(x.e) * 100
    ELSE (200 * x.m + Pow2(0 - x.e)) \div Pow2(1 - x.e)

\* calculateGSTBreakdown(item), lines 355-364
calculateGSTBreakdownToCents(item) ==
    LET half(text) == ToFloat(RoundDiv(Hundredths(text), 2), 100, 0)
    IN  [cgst |-> half(item.gst_amount), sgst |-> half(item.gst_amount),
         cgstRate |-> half(item.gst_rate), sgstRate |-> half(item.gst_rate)]
calculateGSTBreakdown(item) ==
    LET totalGST == parseFloat(item.gst_amount)
        gstRate  == parseFloat(item.gst_rate)
    IN  [cgst |-> Half(totalGST), sgst |-> Half(totalGST),
         cgstRate |-> Half(gstRate), sgstRate |-> Half(gstRate)]

\* the line items: gst_amount and gst_rate as the API sends them
GstAmounts == {Dec(u, c) : u \in GstUnits, c \in 0..MaxCents}
GstRates == {Dec(0, 0), Dec(0, 25), Dec(3, 0), Dec(5, 0), Dec(12, 0), Dec(18, 0), Dec(28, 0)}
\* items that vary in tax amount and rate, and items of small amounts that
\* vary in total and tax amount (the tax is not more than the total)
MaxRowCents == 30
RowAmounts == {Dec(0, c) : c \in 0..MaxRowCents}
ItemsByTax == [gst_amount : GstAmounts, gst_rate : GstRates, total_amount : {Dec(118, 0)}]
ItemsByTotal ==
    {i \in [gst_amount : RowAmounts, gst_rate : {Dec(18, 0)}, total_amount : RowAmounts] :
        Hundredths(i.gst_amount) <= Hundredths(i.total_amount)}
Items == ItemsByTax \cup ItemsByTotal
NoItem == [gst_amount |-> Dec(0, 0), gst_rate |-> Dec(0, 0), total_amount |-> Dec(0, 0)]

\* const taxableValue, line 564
taxableValue(item) == Sub(parseFloat(item.total_amount), parseFloat(item.gst_amount))

NoBreakdown == [cgst |-> Zero, sgst |-> Zero, cgstRate |-> Zero, sgstRate |-> Zero]

IdleGst == gstPc = "row" /\ gstItem = NoItem /\ gstOut = NoBreakdown /\ gstTaxable = Zero

\* a row of the table of items is rendered, lines 562-564
RenderItem ==
    /\ gstPc = "row"
    /\ gstPc' = "done"
    /\ gstOut' = calculateGSTBreakdown(gstItem)
    /\ gstTaxable' = taxableValue(gstItem)
    /\ UNCHANGED <<gstItem, apiVars, normVars, warmVars, billVars, mediaVars, settingsVars>>

----------------------------------------------------------------------------
(* Header.tsx: the roles of Header and SettingsPage, and the shop saves *)

UpperCase == <<"A", "B", "C", "D", "E", "F", "G", "H", "I", "J", "K", "L", "M",
               "N", "O", "P", "Q", "R", "S", "T", "U", "V", "W", "X", "Y", "Z">>
LowerCase == <<"a", "b", "c", "d", "e", "f", "g", "h", "i", "j", "k", "l", "m",
               "n", "o", "p", "q", "r", "s", "t", "u", "v", "w", "x", "y", "z">>
\* toLowerCase()
toLowerCase(s) ==
    [i \in DOMAIN s |->
        IF \E k \in DOMAIN UpperCase : UpperCase[k] = s[i]
        THEN LowerCase[CHOOSE k \in DOMAIN UpperCase : UpperCase[k] = s[i]]
        ELSE s[i]]
\* white space, and what /[-\s]+/ matches
IsSpace(c) == c \in {" ", "\t", "\n"}
IsSeparator(c) == c = "-" \/ IsSpace(c)
RECURSIVE trimStart(_)
trimStart(s) == IF s # <<>> /\ IsSpace(Head(s)) THEN trimStart(Tail(s)) ELSE s
RECURSIVE trimEnd(_)
trimEnd(s) == IF s # <<>> /\ IsSpace(s[Len(s)]) THEN trimEnd(DropLast(s, 1)) ELSE s
\* trim()
trim(s) == trimEnd(trimStart(s))
RECURSIVE SkipSeparators(_)
SkipSeparators(s) ==
    IF s # <<>> /\ IsSeparator(Head(s)) THEN SkipSeparators(Tail(s)) ELSE s
RECURSIVE ReplaceSeparators(_)
\* replace(/[-\s]+/g, '_'): every run of hyphens and white space becomes one '_'
ReplaceSeparators(s) ==
    IF s = <<>> THEN <<>>
    ELSE IF IsSeparator(Head(s)) THEN <<"_">> \o ReplaceSeparators(SkipSeparators(s))
    ELSE <<Head(s)>> \o ReplaceSeparators(Tail(s))

Admin == <<"a", "d", "m", "i", "n">>
SuperAdmin == <<"s", "u", "p", "e", "r", "_", "a", "d", "m", "i", "n">>

\* a role as the API may deliver it: nothing (null, undefined, ''), a string,
\* an object { value, slug, name } whose fields may be missing, or a value of
\* another type
NoRole == [kind |-> "none", text |-> Str0, value |-> NoPath, slug |-> NoPath, name |-> NoPath]
RoleText(t) == [NoRole EXCEPT !.kind = "string", !.text = t]
RoleObject(v, g, n) == [NoRole EXCEPT !.kind = "object", !.value = v, !.slug = g, !.name = n]
RoleNumber == [NoRole EXCEPT !.kind = "other"]

\* normalizeRole for a string, lines 20-23
normalizeText(t) ==
    IF t = Str0 THEN Str0
    ELSE LET normalized == ReplaceSeparators(toLowerCase(trim(t)))
         IN  IF normalized = <<"s", "u", "p", "e", "r", "a", "d", "m", "i", "n">> THEN SuperAdmin ELSE normalized
\* normalizeRole(role), lines 18-29; the fields of a role object are strings
normalizeRole(role) ==
    IF role.kind = "string" THEN normalizeText(role.text)
    ELSE IF role.kind = "object"
    THEN normalizeText(IF ~role.value.missing THEN role.value.text
                       ELSE IF ~role.slug.missing THEN role.slug.text
                       ELSE IF ~role.name.missing THEN role.name.text
                       ELSE Str0)
    ELSE Str0

NoUser == [present |-> FALSE, role |-> NoRole]
User(role) == [present |-> TRUE, role |-> role]

\* Header, lines 30-31: user?.role normalized
HeaderIsAdmin(u) ==
    LET userRole == normalizeRole(IF u.present THEN u.role ELSE NoRole)
    IN  userRole = Admin \/ userRole = SuperAdmin
\* SettingsPage, line 797: user?.role === 'admin' || user?.role === 'super_admin'
SettingsIsAdmin(u) ==
    u.present /\ u.role.kind = "string" /\ (u.role.text = Admin \/ u.role.text = SuperAdmin)

MaxShops == 3
MaxSaves == 2
ShopIds == 1..MaxShops
NoShop == 0

IdleSettings ==
    /\ user = NoUser /\ settingsPc = "init" /\ shops = {}
    /\ savingShopId = NoShop /\ shopSaves = [s \in ShopIds |-> 0]

\* the settings page is opened: the effect of lines 807-838. Without a user it
\* returns; for a user who is not an admin it ends the loading; for an admin
\* it calls fetchData, which requests the company profile and the shops
SettingsMount ==
    /\ settingsPc = "init"
    /\ settingsPc' = IF ~user.present THEN "waiting"
                     ELSE IF ~SettingsIsAdmin(user) THEN "denied" ELSE "fetching"
    /\ UNCHANGED <<user, shops, savingShopId, shopSaves, apiVars, normVars, warmVars,
                   billVars, gstVars, mediaVars>>

\* fetchData after its await: both responses, or a failure of either
SettingsLoaded(ok) ==
    /\ settingsPc = "fetching"
    /\ settingsPc' = "ready"
    /\ shops' = IF ok THEN ShopIds ELSE {}
    /\ UNCHANGED <<user, savingShopId, shopSaves, apiVars, normVars, warmVars, billVars,
                   gstVars, mediaVars>>

\* the Save button of shop s, lines 998-1005
SaveDisabled(s) == savingShopId = s

\* handleShopSave(shop) up to its await: a click on a button that is enabled
handleShopSave(s) ==
    /\ settingsPc = "ready" /\ s \in shops
    /\ ~SaveDisabled(s)
    /\ shopSaves[s] < MaxSaves
    /\ savingShopId' = s
    /\ shopSaves' = [shopSaves EXCEPT ![s] = @ + 1]
    /\ UNCHANGED <<user, settingsPc, shops, apiVars, normVars, warmVars, billVars,
                   gstVars, mediaVars>>

\* handleShopSave after its await: shopsAPI.update answered or failed, then
\* the finally block
ShopSaveSettles(s, ok) ==
    /\ shopSaves[s] > 0
    /\ shopSaves' = [shopSaves EXCEPT ![s] = @ - 1]
    /\ savingShopId' = NoShop
    /\ UNCHANGED <<user, settingsPc, shops, apiVars, normVars, warmVars, billVars,
                   gstVars, mediaVars>>

IdleMedia ==
    mediaEnv = Str0 /\ mediaPc = "call" /\ mediaPath = NoPath /\ mediaOut = Str0

\* a caller builds the URL of a media file
CallBuildMediaUrl ==
    /\ mediaPc = "call"
    /\ mediaPc' = "done"
    /\ mediaOut' = buildMediaUrl(mediaPath)
    /\ UNCHANGED <<mediaEnv, mediaPath, apiVars, normVars, warmVars, billVars, gstVars,
                   settingsVars>>

IdleBill ==
    /\ billPc = "init" /\ autoPrint = FALSE /\ billClosable = FALSE
    /\ sale = NoSale /\ loading = TRUE /\ companyProfile = NullProfile
    /\ profileLoaded = FALSE /\ logoLoaded = FALSE /\ logoError = FALSE
    /\ autoPrintTriggered = FALSE
    /\ rendered = BillState /\ flushed = BillState /\ effectsPending = FALSE
    /\ fetches = [bill |-> "idle", profile |-> "idle"]
    /\ imgSt = "absent" /\ timer = "none" /\ printing = "no"
    /\ documentTitle = OriginalTitle /\ listeners = <<>>
    /\ autoPrints = 0 /\ manualPrints = 0
    /\ routeId = 1 /\ orphans = [id \in Routes |-> "none"]

----------------------------------------------------------------------------
(* Initial states and specifications of the client *)

InitApi ==
    /\ access_token = "a0"
    /\ refresh_token \in {NoToken, "r0"}
    /\ location = "/"
    /\ now = 0
    /\ listCache = EmptyMap
    /\ reqs = [r \in ReqIds |-> IdleReq]
    /\ lastFetched = EmptyMap
    /\ invalidated = {}

IdleNorm == normIn = Null /\ normOut = NoResponse

----------------------------------------------------------------------------
(* api.ts: warmDashboardLists *)

\* the calls of queue(...), lines 439-449, in order: the url, the roles passed
\* to allow (anyRole when none is passed) and requiresShop
WarmLine(url, anyRole, roles, requiresShop) ==
    [url |-> url, anyRole |-> anyRole, roles |-> roles, requiresShop |-> requiresShop]
StockRoles == {"super_admin", "admin", "main_inventory_manager", "sub_stock_manager"}
WarmList == <<
    WarmLine("/products/", TRUE, {}, FALSE),
    WarmLine("/categories/", TRUE, {}, FALSE),
    WarmLine("/brands/", TRUE, {}, FALSE),
    WarmLine("/variants/", TRUE, {}, FALSE),
    WarmLine("/colors/", TRUE, {}, FALSE),
    WarmLine("/conditions/", TRUE, {}, FALSE),
    WarmLine("/sources/", TRUE, {}, FALSE),
    WarmLine("/shops/", FALSE, {"super_admin"}, FALSE),
    WarmLine("/stock-batches/", FALSE, {"super_admin", "main_inventory_manager"}, FALSE),
    WarmLine("/sub-stocks/", FALSE, StockRoles, TRUE),
    WarmLine("/customers/", FALSE, StockRoles, FALSE) >>
WarmLines == DOMAIN WarmList

\* options.role: not given (""), the roles the list names, and one it does not
WarmRoles == {""} \cup StockRoles \cup {"sales_staff"}

\* allow(roles, requiresShop), lines 427-432
allowWithoutShopCheck(role, hasShop, line) ==
    role = "" \/ line.anyRole \/ role \in line.roles
allow(role, hasShop, line) ==
    IF role = "" THEN TRUE
    ELSE IF ~line.anyRole /\ role \notin line.roles THEN FALSE
    ELSE IF line.requiresShop /\ ~hasShop THEN FALSE
    ELSE TRUE

\* the argument cachedGet(url) of queue(...) is evaluated before queue is
\* entered: the call is made whatever the condition is
WarmIssued(role, hasShop, i, cache) ==
    IF CacheHit(cache, buildCacheKey(WarmList[i].url, NoConfig), now, LIST_CACHE_TTL_MS)
    THEN "ok" ELSE "inflight"

WarmAllSettled(fetch, tasks) == \A i \in tasks : fetch[i] \in {"ok", "failed"}

\* warmDashboardLists({ role, hasShop }) up to its await
WarmCall(role, hasShop) ==
    /\ warmPc = "idle"
    /\ warmRole' = role
    /\ warmHasShop' = hasShop
    /\ warmFetch' = [i \in WarmLines |-> WarmIssued(role, hasShop, i, listCache)]
    /\ warmTasks' = {i \in WarmLines : allow(role, hasShop, WarmList[i])}
    /\ warmPc' = IF warmTasks' = {} \/ WarmAllSettled(warmFetch', warmTasks')
                 THEN "returned" ELSE "awaiting"
    /\ UNCHANGED <<apiVars, normVars, billVars, gstVars, mediaVars, settingsVars, warmUnhandled>>

\* the responses arrive in the order the calls were made (the fetches are
\* independent: none reads or changes what another one did)
WarmNext(i) == warmFetch[i] = "inflight" /\ \A j \in WarmLines : j < i => warmFetch[j] # "inflight"

\* the GET of line i succeeds: cachedGet stores the response
WarmFetchOk(i, payload) ==
    /\ WarmNext(i)
    /\ warmFetch' = [warmFetch EXCEPT ![i] = "ok"]
    /\ listCache' = MapSet(listCache, buildCacheKey(WarmList[i].url, NoConfig),
                           [timestamp |-> now,
                            response |-> Normalize(RawResponse(payload,
                                [url |-> WarmList[i].url, cfg |-> NoConfig, method |-> "get"]))])
    /\ warmPc' = IF warmPc = "awaiting" /\ WarmAllSettled(warmFetch', warmTasks)
                 THEN "returned" ELSE warmPc
    /\ UNCHANGED <<access_token, refresh_token, location, now, reqs, lastFetched,
                   invalidated, normVars, billVars, gstVars, mediaVars, settingsVars, warmRole, warmHasShop,
                   warmTasks,
                   warmUnhandled>>

\* the GET of line i fails: safePrefetch swallows the rejection of a queued
\* promise; a promise that was not queued has no handler
WarmFetchFail(i) ==
    /\ WarmNext(i)
    /\ warmFetch' = [warmFetch EXCEPT ![i] = "failed"]
    /\ warmUnhandled' = IF i \in warmTasks THEN warmUnhandled ELSE warmUnhandled \cup {i}
    /\ warmPc' = IF warmPc = "awaiting" /\ WarmAllSettled(warmFetch', warmTasks)
                 THEN "returned" ELSE warmPc
    /\ UNCHANGED <<apiVars, normVars, billVars, gstVars, mediaVars, settingsVars, warmRole, warmHasShop,
                   warmTasks>>

IdleWarm ==
    /\ warmPc = "idle" /\ warmRole = "" /\ warmHasShop = FALSE
    /\ warmFetch = [i \in WarmLines |-> "none"] /\ warmTasks = {} /\ warmUnhandled = {}

InitWarm == InitApi /\ refresh_token = "r0" /\ IdleNorm /\ IdleWarm /\ IdleBill /\ IdleGst /\ IdleMedia
    /\ IdleSettings
NextWarm ==
    \/ \E role \in WarmRoles, hasShop \in BOOLEAN : WarmCall(role, hasShop)
    \/ \E i \in WarmLines, p \in ApiPayloads : WarmFetchOk(i, p)
    \/ \E i \in WarmLines : WarmFetchFail(i)

SpecWarm == InitWarm /\ [][NextWarm]_vars

\* productsAPI.list() and subStocksAPI.list(), called with no search term
ListCalls == {<<"/products/", ParamsNoSearch>>, <<"/sub-stocks/", NoConfig>>}

\* a page calls list() after the warm-up has returned and its fetches have settled
ListCall(r, c) ==
    /\ warmPc = "returned"
    /\ \A i \in WarmLines : warmFetch[i] # "inflight"
    /\ cachedGet(r, c[1], c[2])

\* a warm-up followed by the list calls of the pages
InitWarmList == InitApi /\ refresh_token = "r0" /\ IdleNorm /\ IdleWarm /\ IdleBill /\ IdleGst /\ IdleMedia
    /\ IdleSettings
NextWarmList ==
    \/ \E hasShop \in BOOLEAN : WarmCall("", hasShop)
    \/ \E i \in WarmLines, p \in ApiPayloads : WarmFetchOk(i, p)
    \/ \E i \in WarmLines : WarmFetchFail(i)
    \/ \E r \in ReqIds, c \in ListCalls : ListCall(r, c)
    \/ \E r \in ReqIds, p \in ApiPayloads : RespondOk(r, p)
    \/ \E r \in ReqIds : Return(r)

SpecWarmList == InitWarmList /\ [][NextWarmList]_vars

\* The client under authorization failures: one list key, no clock.
InitAuth == InitApi /\ IdleNorm /\ IdleWarm /\ IdleBill /\ IdleGst /\ IdleMedia
    /\ IdleSettings
NextAuth ==
    \/ \E r \in ReqIds : cachedGet(r, "/products/", ParamsNoSearch)
    \/ \E r \in ReqIds, m \in Methods : ApiCall(r, m, "/products/")
    \/ \E r \in ReqIds, p \in ApiPayloads : RespondOk(r, p)
    \/ \E r \in ReqIds, c \in ErrorCodes : RespondError(r, c)
    \/ \E r \in ReqIds : Refreshed(r)
    \/ \E r \in ReqIds : RefreshFail(r)
    \/ \E r \in ReqIds : Return(r)

SpecAuth == InitAuth /\ [][NextAuth]_vars

\* every network call settles (the response of a request, the answer of a
\* refresh call), and the caller of a settled call runs
AuthFairness ==
    \A r \in ReqIds :
        /\ SF_vars(\/ \E p \in ApiPayloads : RespondOk(r, p)
                   \/ \E c \in ErrorCodes : RespondError(r, c))
        /\ SF_vars(Refreshed(r) \/ RefreshFail(r))
        /\ WF_vars(Return(r))

SpecAuthFair == InitAuth /\ [][NextAuth]_vars /\ AuthFairness

\* The list cache over time: three keys, the clock, a session whose access
\* token the server accepts (no 401).
InitCache == InitApi /\ refresh_token = "r0" /\ IdleNorm /\ IdleWarm /\ IdleBill /\ IdleGst /\ IdleMedia
    /\ IdleSettings
NextCache ==
    \/ \E r \in ReqIds, c \in CachedCalls : cachedGet(r, c[1], c[2])
    \/ \E r \in ReqIds, m \in Methods : ApiCall(r, m, "/products/")
    \/ \E r \in ReqIds, p \in ApiPayloads : RespondOk(r, p)
    \/ \E r \in ReqIds, c \in ErrorCodes \ {"e401"} : RespondError(r, c)
    \/ \E r \in ReqIds : Return(r)
    \/ Tick

SpecCache == InitCache /\ [][NextCache]_vars

\* the list cache under calls that differ in path, in the presence of a config
\* and in the search text: list(), list("a"), list("b") and the warm-up form
KeyCalls == {<<"/products/", NoConfig>>, <<"/products/", ParamsNoSearch>>,
             <<"/products/", ParamsOf("a")>>, <<"/products/", ParamsOf("b")>>,
             <<"/shops/", ParamsNoSearch>>, <<"/shops/", ParamsOf("a")>>}
InitKeys == InitApi /\ refresh_token = "r0" /\ IdleNorm /\ IdleWarm /\ IdleBill /\ IdleGst /\ IdleMedia
    /\ IdleSettings
NextKeys ==
    \/ \E r \in ReqIds, c \in KeyCalls : cachedGet(r, c[1], c[2])
    \/ \E r \in ReqIds, p \in ApiPayloads : RespondOk(r, p)
    \/ \E r \in ReqIds, c \in ErrorCodes \ {"e401"} : RespondError(r, c)
    \/ \E r \in ReqIds : Return(r)

SpecKeys == InitKeys /\ [][NextKeys]_vars

----------------------------------------------------------------------------
(* api.ts: the success handler applied to every payload shape *)

NormConfig == [url |-> "/products/", cfg |-> NoConfig, method |-> "get"]

\* a response with payload p arrives and passes the success handler
Receive(p) ==
    /\ normIn' = p
    /\ normOut' = Normalize(RawResponse(p, NormConfig))
    /\ UNCHANGED <<apiVars, warmVars, billVars, gstVars, mediaVars, settingsVars>>

InitNorm ==
    /\ InitApi /\ refresh_token = "r0" /\ IdleWarm /\ IdleBill /\ IdleGst /\ IdleMedia
    /\ IdleSettings
    /\ normIn = Null
    /\ normOut = Normalize(RawResponse(Null, NormConfig))

NextNorm == \E p \in Payloads : Receive(p)

SpecNorm == InitNorm /\ [][NextNorm]_vars

----------------------------------------------------------------------------
(* Header.tsx: BillPage, its steps *)

\* window.print() returns when the print dialog is closed in some browsers and
\* at once in others (the dialog is then shown while the page goes on): a step
\* of the page may or may not happen while a print is pending
Live == billPc = "mounted"

\* the page is opened: first render, then the effects of the mount. The load
\* effect sets loading and starts fetchBill and fetchCompanyProfile; the logo
\* effect resets the logo flags; the auto-print effect returns (sale is null).
\* params.id is the id of the route and is not empty.
Mount(ap, closable) ==
    /\ billPc = "init"
    /\ billPc' = "mounted"
    /\ autoPrint' = ap
    /\ billClosable' = closable
    /\ sale' = NoSale /\ loading' = TRUE /\ companyProfile' = NullProfile
    /\ profileLoaded' = FALSE /\ logoLoaded' = FALSE /\ logoError' = FALSE
    /\ autoPrintTriggered' = FALSE
    /\ rendered' = BillState'
    /\ flushed' = BillState'
    /\ effectsPending' = FALSE
    /\ fetches' = [bill |-> "inflight", profile |-> "inflight"]
    /\ UNCHANGED <<imgSt, timer, printing, documentTitle, listeners, autoPrints,
                   manualPrints, NotBill>>

\* React renders the component with the current state and commits the result;
\* the effects of this render are run later (FlushEffects), and before the
\* next render
Render ==
    /\ Live /\ ~effectsPending
    /\ BillState # rendered
    /\ rendered' = BillState
    /\ effectsPending' = TRUE
    /\ imgSt' = IF ~HasImg(BillState) THEN (IF imgSt = "done" THEN "done" ELSE "absent")
                ELSE IF ~HasImg(rendered) \/ logoUrl(rendered) # logoUrl(BillState)
                THEN "fetching" ELSE imgSt
    /\ UNCHANGED <<billPc, autoPrint, billClosable, sale, loading, companyProfile,
                   profileLoaded, logoLoaded, logoError, autoPrintTriggered, flushed,
                   fetches, timer, printing, documentTitle, listeners, autoPrints,
                   manualPrints, NotBill>>

\* the effects of the committed render: the cleanups of the effects whose
\* dependencies changed, then these effects in the order of the source. The
\* load effect depends on params.id only and does not run again.
FlushEffects ==
    /\ Live /\ effectsPending
    /\ effectsPending' = FALSE
    /\ flushed' = rendered
    /\ IF logoUrl(rendered) # logoUrl(flushed)
       THEN logoLoaded' = FALSE /\ logoError' = FALSE
       ELSE UNCHANGED <<logoLoaded, logoError>>
    /\ IF AutoPrintDeps(rendered) # AutoPrintDeps(flushed)
       THEN IF ShouldAutoPrint(autoPrint, rendered)
            THEN autoPrintTriggered' = TRUE /\ timer' = "waiting"
            ELSE autoPrintTriggered' = autoPrintTriggered /\ timer' = "none"
       ELSE UNCHANGED <<autoPrintTriggered, timer>>
    /\ UNCHANGED <<billPc, autoPrint, billClosable, sale, loading, companyProfile,
                   profileLoaded, rendered, fetches, imgSt, printing, documentTitle,
                   listeners, autoPrints, manualPrints, NotBill>>

SaleOutcomes == {"ok", "empty", "fail"}

\* fetchBill after its await: the response of salesAPI.invoice, or its failure.
\* A component that is no longer mounted ignores the result.
fetchBill(outcome) ==
    /\ billPc \in {"mounted", "unmounted"}
    /\ fetches.bill = "inflight"
    /\ fetches' = [fetches EXCEPT !.bill = outcome]
    /\ IF billPc = "mounted"
       THEN sale' = (IF outcome = "ok" THEN SaleFor(routeId) ELSE NoSale) /\ loading' = FALSE
       ELSE UNCHANGED <<sale, loading>>
    /\ UNCHANGED <<billPc, autoPrint, billClosable, companyProfile, profileLoaded,
                   logoLoaded, logoError, autoPrintTriggered, rendered, flushed,
                   effectsPending, imgSt, timer, printing, documentTitle, listeners,
                   autoPrints, manualPrints, NotBill>>

NoProfileResponse == [failed |-> TRUE, logo |-> Str0]
ProfileOutcomes == {NoProfileResponse} \cup {[failed |-> FALSE, logo |-> p] : p \in LogoPaths}

\* fetchCompanyProfile after its await
fetchCompanyProfile(outcome) ==
    /\ billPc \in {"mounted", "unmounted"}
    /\ fetches.profile = "inflight"
    /\ fetches' = [fetches EXCEPT !.profile = "done"]
    /\ IF billPc = "mounted"
       THEN /\ companyProfile' = IF outcome.failed THEN NullProfile ELSE Profile(outcome.logo)
            /\ profileLoaded' = TRUE
       ELSE UNCHANGED <<companyProfile, profileLoaded>>
    /\ UNCHANGED <<billPc, autoPrint, billClosable, sale, loading, logoLoaded,
                   logoError, autoPrintTriggered, rendered, flushed, effectsPending,
                   imgSt, timer, printing, documentTitle, listeners, autoPrints,
                   manualPrints, NotBill>>

\* onLoad / onError of the logo image
ImgEvent(ok) ==
    /\ Live /\ imgSt = "fetching"
    /\ imgSt' = "done"
    /\ IF ok THEN logoLoaded' = TRUE /\ UNCHANGED logoError
             ELSE logoError' = TRUE /\ UNCHANGED logoLoaded
    /\ UNCHANGED <<billPc, autoPrint, billClosable, sale, loading, companyProfile,
                   profileLoaded, autoPrintTriggered, rendered, flushed, effectsPending,
                   fetches, timer, printing, documentTitle, listeners, autoPrints,
                   manualPrints, NotBill>>

\* the 300 ms of the auto-print timer have passed
DelayElapses ==
    /\ billPc \in {"mounted", "unmounted"} /\ timer = "waiting"
    /\ timer' = "due"
    /\ UNCHANGED <<billPc, autoPrint, billClosable, sale, loading, companyProfile,
                   profileLoaded, logoLoaded, logoError, autoPrintTriggered, rendered,
                   flushed, effectsPending, fetches, imgSt, printing, documentTitle,
                   listeners, autoPrints, manualPrints, NotBill>>

\* triggerPrint(afterPrint): blank the title, register the afterprint listener,
\* window.print()
triggerPrint(by, afterPrint) ==
    /\ documentTitle' = ""
    /\ listeners' = Append(listeners, [originalTitle |-> documentTitle, afterPrint |-> afterPrint])
    /\ printing' = by

\* the callback of setTimeout
TimerFire ==
    /\ billPc \in {"mounted", "unmounted"} /\ timer = "due"
    /\ autoPrints < MaxAutoPrints
    /\ timer' = "none"
    /\ triggerPrint("auto", "close")
    /\ autoPrints' = autoPrints + 1
    /\ UNCHANGED <<billPc, autoPrint, billClosable, sale, loading, companyProfile,
                   profileLoaded, logoLoaded, logoError, autoPrintTriggered, rendered,
                   flushed, effectsPending, fetches, imgSt, manualPrints, NotBill>>

\* the Print Bill button of the invoice
handlePrintLatched ==
    /\ Live /\ View(rendered) = "bill"
    /\ ~autoPrintTriggered /\ profileLoaded /\ logoReady(BillState)
    /\ manualPrints < MaxManualPrints
    /\ triggerPrint("manual", "none")
    /\ manualPrints' = manualPrints + 1
    /\ UNCHANGED <<billPc, autoPrint, billClosable, sale, loading, companyProfile,
                   profileLoaded, logoLoaded, logoError, autoPrintTriggered, rendered,
                   flushed, effectsPending, fetches, imgSt, timer, autoPrints, NotBill>>
handlePrint ==
    /\ Live /\ View(rendered) = "bill"
    /\ manualPrints < MaxManualPrints
    /\ triggerPrint("manual", "none")
    /\ manualPrints' = manualPrints + 1
    /\ UNCHANGED <<billPc, autoPrint, billClosable, sale, loading, companyProfile,
                   profileLoaded, logoLoaded, logoError, autoPrintTriggered, rendered,
                   flushed, effectsPending, fetches, imgSt, timer, autoPrints, NotBill>>

\* window.close() closes a window that a script opened and no other
WindowClose(pc) == IF billClosable THEN "closed" ELSE pc

RECURSIVE RunListeners(_, _)
\* the afterprint listeners in the order of registration: the title after them
RunListeners(ls, title) ==
    IF ls = <<>> THEN title ELSE RunListeners(Tail(ls), Head(ls).originalTitle)

\* the afterprint event: every listener restores the title it saw, removes
\* itself and calls its afterPrint
AfterPrintClosesAlways ==
    /\ billPc \in {"mounted", "unmounted"} /\ printing # "no"
    /\ printing' = "no"
    /\ documentTitle' = RunListeners(listeners, documentTitle)
    /\ listeners' = <<>>
    /\ billPc' = WindowClose(billPc)
    /\ UNCHANGED <<autoPrint, billClosable, sale, loading, companyProfile, profileLoaded,
                   logoLoaded, logoError, autoPrintTriggered, rendered, flushed,
                   effectsPending, fetches, imgSt, timer, autoPrints, manualPrints, NotBill>>
AfterPrint ==
    /\ billPc \in {"mounted", "unmounted"} /\ printing # "no"
    /\ printing' = "no"
    /\ documentTitle' = RunListeners(listeners, documentTitle)
    /\ listeners' = <<>>
    /\ billPc' = IF \E k \in DOMAIN listeners : listeners[k].afterPrint = "close"
                 THEN WindowClose(billPc) ELSE billPc
    /\ UNCHANGED <<autoPrint, billClosable, sale, loading, companyProfile, profileLoaded,
                   logoLoaded, logoError, autoPrintTriggered, rendered, flushed,
                   effectsPending, fetches, imgSt, timer, autoPrints, manualPrints, NotBill>>

\* the Close button of the invoice and of "Bill not found"
Close ==
    /\ Live /\ View(rendered) \in {"bill", "notfound"}
    /\ billPc' = WindowClose(billPc)
    /\ UNCHANGED <<autoPrint, billClosable, sale, loading, companyProfile, profileLoaded,
                   logoLoaded, logoError, autoPrintTriggered, rendered, flushed,
                   effectsPending, fetches, imgSt, timer, printing, documentTitle,
                   listeners, autoPrints, manualPrints, NotBill>>

\* the user leaves the page: the cleanup of the auto-print effect clears the timer
UnmountKeepsTimer ==
    /\ Live
    /\ billPc' = "unmounted"
    /\ UNCHANGED <<autoPrint, billClosable, sale, loading, companyProfile, profileLoaded,
                   logoLoaded, logoError, autoPrintTriggered, rendered, flushed,
                   effectsPending, fetches, imgSt, timer, printing, documentTitle,
                   listeners, autoPrints, manualPrints, NotBill>>
Unmount ==
    /\ Live
    /\ billPc' = "unmounted"
    /\ timer' = "none"
    /\ UNCHANGED <<autoPrint, billClosable, sale, loading, companyProfile, profileLoaded,
                   logoLoaded, logoError, autoPrintTriggered, rendered, flushed,
                   effectsPending, fetches, imgSt, printing, documentTitle, listeners,
                   autoPrints, manualPrints, NotBill>>

\* the route changes to the invoice with the next id: the page of the old id is
\* unmounted (its timer is cleared, its fetches go on), a new page is mounted
\* with the state of a first render and starts its own fetches
Navigate(ap) ==
    /\ Live /\ routeId < MaxRoute
    /\ routeId' = routeId + 1
    /\ orphans' = IF fetches.bill = "inflight"
                  THEN [orphans EXCEPT ![routeId] = "inflight"] ELSE orphans
    /\ autoPrint' = ap
    /\ sale' = NoSale /\ loading' = TRUE /\ companyProfile' = NullProfile
    /\ profileLoaded' = FALSE /\ logoLoaded' = FALSE /\ logoError' = FALSE
    /\ autoPrintTriggered' = FALSE
    /\ rendered' = BillState'
    /\ flushed' = BillState'
    /\ effectsPending' = FALSE
    /\ fetches' = [bill |-> "inflight", profile |-> "inflight"]
    /\ imgSt' = "absent" /\ timer' = "none"
    /\ UNCHANGED <<billPc, billClosable, printing, documentTitle, listeners, autoPrints,
                   manualPrints, NotPage>>

\* the sale fetch of a page that was unmounted settles: its setSale and
\* setLoading reach a component that is gone and change nothing
OrphanSettlesApplied(id, outcome) ==
    /\ billPc \in {"mounted", "unmounted"} /\ orphans[id] = "inflight"
    /\ orphans' = [orphans EXCEPT ![id] = IF sale # NoSale THEN "late" ELSE "ignored"]
    /\ sale' = (IF outcome = "ok" THEN SaleFor(id) ELSE NoSale) /\ loading' = FALSE
    /\ UNCHANGED <<billPc, autoPrint, billClosable, companyProfile, profileLoaded,
                   logoLoaded, logoError, autoPrintTriggered, rendered, flushed,
                   effectsPending, fetches, imgSt, timer, printing, documentTitle,
                   listeners, autoPrints, manualPrints, routeId, NotPage>>
OrphanSettles(id, outcome) ==
    /\ billPc \in {"mounted", "unmounted"} /\ orphans[id] = "inflight"
    /\ orphans' = [orphans EXCEPT ![id] = IF sale # NoSale THEN "late" ELSE "ignored"]
    /\ UNCHANGED <<billPc, autoPrint, billClosable, sale, loading, companyProfile,
                   profileLoaded, logoLoaded, logoError, autoPrintTriggered, rendered,
                   flushed, effectsPending, fetches, imgSt, timer, printing,
                   documentTitle, listeners, autoPrints, manualPrints, routeId, NotPage>>

InitBill == InitApi /\ refresh_token = "r0" /\ IdleNorm /\ IdleWarm /\ IdleBill /\ IdleGst /\ IdleMedia
    /\ IdleSettings
NextBill ==
    \/ \E ap \in BOOLEAN, closable \in BOOLEAN : Mount(ap, closable)
    \/ Render
    \/ FlushEffects
    \/ \E o \in SaleOutcomes : fetchBill(o)
    \/ \E o \in ProfileOutcomes : fetchCompanyProfile(o)
    \/ \E ok \in BOOLEAN : ImgEvent(ok)
    \/ DelayElapses
    \/ TimerFire
    \/ handlePrint
    \/ AfterPrint
    \/ Close
    \/ Unmount

SpecBill == InitBill /\ [][NextBill]_vars

\* React runs the renders and effects it has scheduled, the responses and the
\* image events arrive, a timer that is due runs, a print dialog is closed
BillFairness ==
    /\ WF_vars(Render) /\ WF_vars(FlushEffects)
    /\ WF_vars(\E o \in SaleOutcomes : fetchBill(o))
    /\ WF_vars(\E o \in ProfileOutcomes : fetchCompanyProfile(o))
    /\ WF_vars(\E ok \in BOOLEAN : ImgEvent(ok))
    /\ WF_vars(DelayElapses) /\ WF_vars(TimerFire) /\ WF_vars(AfterPrint)

SpecBillFair == InitBill /\ [][NextBill]_vars /\ BillFairness

\* React runs the renders and effects it has scheduled; nothing is assumed of
\* the network: a fetch may stay without an answer forever
RenderFairness == WF_vars(Render) /\ WF_vars(FlushEffects)

SpecBillLoad == InitBill /\ [][NextBill]_vars /\ RenderFairness

\* the invoice view with changes of the route
InitRoute == InitApi /\ refresh_token = "r0" /\ IdleNorm /\ IdleWarm /\ IdleBill /\ IdleGst /\ IdleMedia
    /\ IdleSettings
NextRoute ==
    \/ \E ap \in BOOLEAN, closable \in BOOLEAN : Mount(ap, closable)
    \/ Render
    \/ FlushEffects
    \/ \E o \in SaleOutcomes : fetchBill(o)
    \/ \E o \in ProfileOutcomes : fetchCompanyProfile(o)
    \/ \E ok \in BOOLEAN : ImgEvent(ok)
    \/ DelayElapses
    \/ TimerFire
    \/ handlePrint
    \/ AfterPrint
    \/ Close
    \/ Unmount
    \/ \E ap \in BOOLEAN : Navigate(ap)
    \/ \E id \in Routes, o \in SaleOutcomes : OrphanSettles(id, o)

SpecRoute == InitRoute /\ [][NextRoute]_vars

\* calls of buildMediaUrl: builds with and without NEXT_PUBLIC_API_URL, with
\* and without the /api suffix; paths that are missing, empty, relative,
\* absolute, and near misses of both tests
ApiUrls == {Str0,
            <<"/", "a", "p", "i">>,
            <<"/", "a", "p", "i", "/">>,
            <<"h", "/", "a", "p", "i">>,
            <<"h", "/", "a", "p", "i", "/">>,
            <<"h", "/", "a", "p", "i", "/", "a", "p", "i">>,
            <<"h", "/", "a", "p", "i", "/", "/">>,
            <<"h", "/", "a", "p", "i", "s">>,
            <<"h">>,
            <<"a", "p", "i">>,
            <<"/", "A", "P", "I">>}
MediaPaths == {NoPath, Path(Str0),
               Path(<<"/", "m">>),
               Path(<<"m">>),
               Path(<<"h", "t", "t", "p">>),
               Path(<<"h", "t", "t", "p", "s", ":", "/", "/", "c", "/", "l">>),
               Path(<<"h", "t", "t">>),
               Path(<<"H", "t", "t", "p", "/", "m">>),
               Path(<<"/", "a", "p", "i">>)}
InitMedia ==
    /\ InitApi /\ refresh_token = "r0" /\ IdleNorm /\ IdleWarm /\ IdleBill /\ IdleGst
    /\ IdleSettings
    /\ mediaEnv \in ApiUrls /\ mediaPath \in MediaPaths
    /\ mediaPc = "call" /\ mediaOut = Str0
NextMedia == CallBuildMediaUrl
SpecMedia == InitMedia /\ [][NextMedia]_vars

\* the role texts the pages are examined on: the two admin roles as the
\* settings page spells them, other spellings of them, and other roles
RoleTexts ==
    {<<"a", "d", "m", "i", "n">>,
     <<"s", "u", "p", "e", "r", "_", "a", "d", "m", "i", "n">>,
     <<"A", "d", "m", "i", "n">>,
     <<" ", "a", "d", "m", "i", "n", " ">>,
     <<"s", "u", "p", "e", "r", "-", "a", "d", "m", "i", "n">>,
     <<"s", "u", "p", "e", "r", " ", "a", "d", "m", "i", "n">>,
     <<"s", "u", "p", "e", "r", "a", "d", "m", "i", "n">>,
     <<"S", "u", "p", "e", "r", "A", "d", "m", "i", "n">>,
     <<"S", "U", "P", "E", "R", "_", "A", "D", "M", "I", "N">>,
     <<"s", "u", "p", "e", "r", " ", "-", " ", "a", "d", "m", "i", "n">>,
     <<"s", "a", "l", "e", "s", "_", "s", "t", "a", "f", "f">>,
     <<"a", "d", "m", "i", "n", "i", "s", "t", "r", "a", "t", "o", "r">>,
     <<"s", "u", "b", "_", "s", "t", "o", "c", "k", "_", "m", "a", "n", "a", "g", "e", "r">>}
Roles ==
    {NoRole, RoleNumber} \cup {RoleText(t) : t \in RoleTexts}
    \cup {RoleObject(Path(Admin), NoPath, NoPath),
          RoleObject(NoPath, Path(SuperAdmin), NoPath),
          RoleObject(NoPath, NoPath, Path(<<"s", "a", "l", "e", "s", "_", "s", "t", "a", "f", "f">>)),
          RoleObject(NoPath, NoPath, NoPath)}
Users == {NoUser} \cup {User(r) : r \in Roles}

\* the settings page of a signed-in user, and the saves of its shops
InitSettings ==
    /\ InitApi /\ refresh_token = "r0" /\ IdleNorm /\ IdleWarm /\ IdleBill /\ IdleGst
    /\ IdleMedia
    /\ user \in Users /\ settingsPc = "init" /\ shops = {}
    /\ savingShopId = NoShop /\ shopSaves = [s \in ShopIds |-> 0]
NextSettings ==
    \/ SettingsMount
    \/ \E ok \in BOOLEAN : SettingsLoaded(ok)
    \/ \E s \in ShopIds : handleShopSave(s)
    \/ \E s \in ShopIds, ok \in BOOLEAN : ShopSaveSettles(s, ok)
SpecSettings == InitSettings /\ [][NextSettings]_vars

\* the rows of an invoice, each with its tax breakdown
InitGst ==
    /\ InitApi /\ refresh_token = "r0" /\ IdleNorm /\ IdleWarm /\ IdleBill /\ IdleMedia
    /\ IdleSettings
    /\ gstPc = "row" /\ gstItem \in Items /\ gstOut = NoBreakdown /\ gstTaxable = Zero
NextGst == RenderItem
SpecGst == InitGst /\ [][NextGst]_vars

----------------------------------------------------------------------------
(* Claims about the client *)

\* C1 (as amended): a request that receives a 401 while a refresh token is stored
\* makes exactly one refresh call; when that call succeeds the request is replayed
\* exactly once, and when the replay fails (a second 401 included) the replay's
\* error is what the caller gets, with no second refresh call; when the refresh
\* call fails the request is not replayed.
C1_RecoveryOnce ==
    \A r \in ReqIds :
        reqs[r].got401 = "token" =>
            /\ reqs[r].refreshes = 1
            /\ reqs[r].sends <= 2
            /\ reqs[r].st = "sent" => reqs[r].sends = 2
            /\ Settled(r) =>
                 IF reqs[r].out = Rejected("refreshError", 0)
                 THEN reqs[r].sends = 1
                 ELSE /\ reqs[r].sends = 2
                      /\ reqs[r].out.kind = "error" =>
                            /\ reqs[r].out.err.attempt = 2
                            /\ reqs[r].out.err.code \in ErrorCodes

\* C1 witness: the replay came back with a second 401 and the caller got it
C1_Witness ==
    \E r \in ReqIds :
        /\ Settled(r) /\ reqs[r].got401 = "token"
        /\ reqs[r].out = Rejected("e401", 2)
        /\ reqs[r].refreshes = 1 /\ reqs[r].sends = 2

\* C1 as stated: every request that receives a 401 while a refresh token is
\* stored is refreshed once and replayed once
C1_Original ==
    \A r \in ReqIds :
        (Settled(r) /\ reqs[r].got401 = "token") =>
            /\ reqs[r].refreshes = 1
            /\ reqs[r].sends = 2
            /\ reqs[r].out.kind = "error" => reqs[r].out.err.attempt = 2

\* C2: a request that receives a 401 while no refresh token is stored clears the
\* stored tokens and redirects to the login entry point, with no refresh call
\* and no retry
C2_NoRefreshTokenClearsAndRedirects ==
    \A r \in ReqIds :
        (Settled(r) /\ reqs[r].got401 = "notoken") =>
            /\ reqs[r].refreshes = 0
            /\ reqs[r].sends = 1
            /\ access_token = NoToken
            /\ refresh_token = NoToken
            /\ location = "/login"

\* C2 witness: such a request was rejected with its 401, unrefreshed and unretried
C2_Witness ==
    \E r \in ReqIds :
        /\ Settled(r) /\ reqs[r].got401 = "notoken"
        /\ reqs[r].out = Rejected("e401", 1)
        /\ reqs[r].refreshes = 0 /\ reqs[r].sends = 1

\* C3: when the refresh call fails, both stored tokens are removed, the client is
\* redirected to /login, the original request is not replayed and the caller's
\* operation is rejected
C3_RefreshFailure ==
    \A r \in ReqIds :
        (Settled(r) /\ reqs[r].out.err.code = "refreshError") =>
            /\ reqs[r].st = "rejected"
            /\ access_token = NoToken
            /\ refresh_token = NoToken
            /\ location = "/login"
            /\ reqs[r].sends = 1

\* C3 witness: a call rejected by the failure of its refresh call
C3_Witness ==
    \E r \in ReqIds :
        /\ reqs[r].st = "rejected" /\ reqs[r].out = Rejected("refreshError", 0)
        /\ reqs[r].refreshes = 1

\* C4: a cached GET called while the last network answer for its key (with no
\* non-GET sent since) is younger than the TTL makes no network call; one called
\* when that answer is as old as the TTL or older makes a new network call
C4_OneCallPerTtlWindow ==
    \A r \in ReqIds :
        (reqs[r].cached /\ reqs[r].st # "idle") =>
            /\ reqs[r].seen = "fresh" => (reqs[r].sends = 0 /\ reqs[r].st = "resolved")
            /\ reqs[r].seen = "stale" => reqs[r].sends >= 1
            /\ reqs[r].seen = "none"  => reqs[r].sends >= 1

\* C4 witness: a call made when the TTL had elapsed went to the network, while an
\* entry stored before is still in the cache
C4_Witness ==
    \E r \in ReqIds :
        /\ reqs[r].cached /\ reqs[r].seen = "stale" /\ reqs[r].st = "sent"
        /\ buildCacheKey(reqs[r].url, reqs[r].cfg) \in DOMAIN listCache

\* C4 second witness state: a call within the TTL window, served without the network
C4_WitnessHit ==
    \E r \in ReqIds :
        /\ reqs[r].cached /\ reqs[r].seen = "fresh" /\ reqs[r].sends = 0
        /\ now - lastFetched[buildCacheKey(reqs[r].url, reqs[r].cfg)] = TickMs

\* C5: a non-GET request leaves the list cache empty when it is sent, and a
\* cached GET for a key cached before, called afterwards, makes a network call
C5_WriteForcesRefetch ==
    \A r \in ReqIds :
        /\ (reqs[r].st # "idle" /\ reqs[r].method # "get") => reqs[r].purged
        /\ (reqs[r].cached /\ reqs[r].refetch) => reqs[r].sends >= 1

\* C5 witness: the purge itself: a non-GET in flight after entries were dropped
C5_Witness ==
    \E r \in ReqIds :
        /\ reqs[r].st = "sent" /\ reqs[r].method = "post" /\ reqs[r].purged
        /\ invalidated # {}

\* C6: an object payload with a results array is replaced by that array and
\* {count, next, previous} are attached as pagination; any other payload (array,
\* object without a results array, null, scalar) passes unchanged with no
\* pagination attached
IsEnvelope(x) == x.t = "object" /\ x.results.t = "array"
C6_Normalization ==
    IF IsEnvelope(normIn)
    THEN /\ normOut.data = normIn.results
         /\ normOut.pagination = [attached |-> TRUE, count |-> normIn.count,
                                  next |-> normIn.next, previous |-> normIn.previous]
    ELSE /\ normOut.data = normIn
         /\ ~normOut.pagination.attached

\* C6 witness: the envelope {results:[a,b], count:2, next:null, previous:null}
C6_Witness ==
    /\ normIn = Obj(Arr(<<1, 2>>), Num(2), Null, Null, Absent)
    /\ normOut.data = Arr(<<1, 2>>)
    /\ normOut.pagination = [attached |-> TRUE, count |-> Num(2), next |-> Null,
                             previous |-> Null]

\* C7: warmDashboardLists issues a GET for a line of its list only if the allow
\* predicate of the line holds for role and hasShop; for a line whose predicate
\* is false no request is issued and no cache entry is created
C7_WarmUpGated ==
    \A i \in WarmLines :
        ~allow(warmRole, warmHasShop, WarmList[i]) =>
            /\ warmFetch[i] = "none"
            /\ buildCacheKey(WarmList[i].url, NoConfig) \notin DOMAIN listCache

\* C7 witness: a warm-up for a role that line 8 (/shops/) does not allow has
\* been answered completely
C7_Witness ==
    /\ warmPc = "returned" /\ warmRole = "admin"
    /\ ~allow(warmRole, warmHasShop, WarmList[8])
    /\ \A i \in WarmLines : warmFetch[i] # "inflight"

----------------------------------------------------------------------------
(* Claims about the invoice view *)

\* the view is print-ready, as the component judges it from its state
PrintReady == sale # NoSale /\ profileLoaded /\ logoReady(BillState)

\* C8: in auto-print mode, once the view is print-ready and stays mounted (and
\* ready), the print lifecycle is eventually invoked by the auto-print timer
C8_AutoPrintEventually ==
    (autoPrint /\ billPc = "mounted" /\ PrintReady)
        ~> (autoPrints > 0 \/ billPc # "mounted" \/ ~PrintReady)

\* C8 witness: the view is print-ready and rendered, the latch is set and
\* rendered, no timer is left and no print was started
C8_Witness ==
    /\ autoPrint /\ billPc = "mounted" /\ PrintReady
    /\ rendered = BillState /\ ~effectsPending
    /\ autoPrintTriggered /\ timer = "none" /\ autoPrints = 0

\* C9: the auto-print timer starts the print lifecycle at most once in a view
C9_AutoPrintAtMostOnce == autoPrints <= 1

\* C9 witness: the automatic print is over, the window is still open and the
\* view has been rendered again with the latch set
C9_Witness ==
    /\ autoPrints = 1 /\ billPc = "mounted" /\ printing = "no"
    /\ rendered = BillState /\ ~effectsPending /\ autoPrintTriggered

\* C10: when the print dialog was opened by the auto-print timer, the sale is
\* loaded, the profile fetch has settled and the logo image, when the profile
\* has one, has delivered its load or error event; the rendered view is the
\* invoice in that state
C10_AutoPrintOnlyWhenReady ==
    printing = "auto" =>
        /\ fetches.bill = "ok" /\ sale = TheSale
        /\ fetches.profile = "done" /\ profileLoaded
        /\ (companyProfile.isNull \/ companyProfile.logo = Str0 \/ imgSt = "done")
        /\ View(rendered) = "bill" /\ rendered.sale = sale
        /\ rendered.companyProfile = companyProfile
        /\ rendered.profileLoaded /\ logoReady(rendered)

\* C10 witness: an automatic print of an invoice whose logo has loaded
C10_Witness ==
    /\ printing = "auto" /\ ~companyProfile.isNull /\ companyProfile.logo = RelativeLogo
    /\ logoLoaded /\ imgSt = "done"

----------------------------------------------------------------------------
(* Further claims about the client *)

\* C11: a request through the client is transmitted at most twice and makes at
\* most one refresh call, and, every network call settling, it settles
C11_SettlesWithinTwoSends ==
    /\ [](\A r \in ReqIds : reqs[r].sends <= 2 /\ reqs[r].refreshes <= 1)
    /\ \A r \in ReqIds : (reqs[r].st \in {"sent", "refreshing"}) ~> Settled(r)

\* C11 witness: a request settled after two transmissions and one refresh call,
\* its replay answered with a second 401
C11_Witness ==
    \E r \in ReqIds :
        /\ reqs[r].st = "rejected" /\ reqs[r].sends = 2 /\ reqs[r].refreshes = 1
        /\ reqs[r].netErr = "e401"

\* C12: every transmission made while an access token is stored carries
\* Authorization: Bearer <the stored token>, and the replay after a successful
\* refresh carries the token the refresh call issued, not the header of the
\* transmission that was answered 401
C12_BearerOfStoredToken ==
    \A r \in ReqIds :
        reqs[r].sends >= 1 =>
            /\ reqs[r].tokenAtSend # NoToken =>
                   reqs[r].auth = "Bearer " \o reqs[r].tokenAtSend
            /\ reqs[r].sends = 2 =>
                   /\ reqs[r].tokenAtSend # NoToken
                   /\ reqs[r].replayFresh

\* C12 witness: a replay in flight with the token the refresh call issued,
\* which is the stored token
C12_Witness ==
    \E r \in ReqIds :
        /\ reqs[r].st = "sent" /\ reqs[r].sends = 2
        /\ access_token = "a1" /\ reqs[r].auth = "Bearer a1"

\* C13: a failure that is not a first 401 with a refresh token stored (a network
\* failure, another error status, a 401 with no refresh token, a 401 or any
\* other failure of the replay) is rejected to the caller as the error the
\* network delivered, with no refresh call and no transmission after it
C13_OtherFailuresPropagate ==
    \A r \in ReqIds :
        /\ reqs[r].st = "refreshing" =>
               /\ reqs[r].netErr = "e401" /\ reqs[r].sends = 1
               /\ reqs[r].refreshes = 1 /\ reqs[r].got401 = "token"
        /\ (reqs[r].st = "rejected" /\ reqs[r].out.err.code # "refreshError") =>
               /\ reqs[r].out.kind = "error"
               /\ reqs[r].out.err.code = reqs[r].netErr
               /\ reqs[r].out.err.attempt = reqs[r].sends
               /\ IF reqs[r].got401 = "token"
                  THEN reqs[r].sends = 2 /\ reqs[r].refreshes = 1
                  ELSE reqs[r].sends = 1 /\ reqs[r].refreshes = 0

\* C13 witness: a 500 rejected to the caller while a refresh token is stored
C13_Witness ==
    \E r \in ReqIds :
        /\ reqs[r].st = "rejected" /\ reqs[r].netErr = "e500"
        /\ reqs[r].out.err.code = "e500" /\ reqs[r].sends = 1
        /\ reqs[r].refreshes = 0 /\ refresh_token = "r0"

\* C14: warm-up never surfaces a failure: warmDashboardLists resolves whatever
\* the individual fetches do, and no rejection of a fetch it started is left
\* without a handler
C14_WarmFailuresSwallowed ==
    /\ warmPc \in {"idle", "awaiting", "returned"}
    /\ warmUnhandled = {}

\* C14 witness: a warm-up has returned after a fetch it awaited had failed
C14_Witness ==
    /\ warmPc = "returned"
    /\ \E i \in warmTasks : warmFetch[i] = "failed"
    /\ \A i \in WarmLines : warmFetch[i] # "inflight"

\* C15: for every role, hasShop and endpoint, the endpoint is queued exactly when
\* no role is recorded, or the role is in the endpoint's permitted set (or the
\* endpoint has none) and hasShop is true if the endpoint requires a shop
C15_AllowExact ==
    warmPc # "idle" =>
        \A i \in WarmLines :
            i \in warmTasks <=>
                \/ warmRole = ""
                \/ /\ WarmList[i].anyRole \/ warmRole \in WarmList[i].roles
                   /\ WarmList[i].requiresShop => warmHasShop

\* C15 witness: a warm-up for an 'admin' without a shop: /sub-stocks/ is not
\* queued, /customers/ is
C15_Witness ==
    /\ warmPc # "idle" /\ warmRole = "admin" /\ ~warmHasShop
    /\ 10 \notin warmTasks /\ 11 \in warmTasks /\ 8 \notin warmTasks

\* C16: there is no single-flight: a cached GET started while another cached GET
\* for the same key is waiting for its response (none for the key having arrived
\* since that one was started) misses the cache too and is sent to the network
C16_NoSingleFlight ==
    \A r \in ReqIds :
        (reqs[r].cached /\ reqs[r].overlap) =>
            /\ reqs[r].seen # "fresh"
            /\ reqs[r].sends >= 1

\* C16 witness: two cached GETs for the same key are both on the network
C16_Witness ==
    \E r, q \in ReqIds :
        /\ r # q /\ reqs[r].cached /\ reqs[q].cached
        /\ reqs[r].st = "sent" /\ reqs[q].st = "sent"
        /\ buildCacheKey(reqs[r].url, reqs[r].cfg) = buildCacheKey(reqs[q].url, reqs[q].cfg)
        /\ reqs[r].sends = 1 /\ reqs[q].sends = 1 /\ reqs[q].overlap

\* C17: the view is "Bill not found" exactly when the sale fetch has failed or
\* returned an empty payload, whether the company-profile fetch has succeeded,
\* failed or is still pending
C17_NotFoundIffSaleMissing ==
    billPc = "mounted" =>
        /\ View(BillState) = "notfound" <=> fetches.bill \in {"empty", "fail"}
        /\ View(rendered) = "notfound" => fetches.bill \in {"empty", "fail"}
        /\ (fetches.bill \in {"empty", "fail"} /\ rendered = BillState) =>
               View(rendered) = "notfound"

\* C17 witness: "Bill not found" is on screen while the profile fetch is pending
C17_Witness ==
    /\ billPc = "mounted" /\ View(rendered) = "notfound"
    /\ fetches.bill = "fail" /\ fetches.profile = "inflight"

\* C17 witness: "Bill not found" is on screen for an empty payload, after the
\* profile fetch has succeeded
C17_WitnessProfileLoaded ==
    /\ billPc = "mounted" /\ View(rendered) = "notfound"
    /\ fetches.bill = "empty" /\ fetches.profile = "done" /\ ~companyProfile.isNull

\* C18: whenever the invoice is on screen (sale loaded) the Print Bill button
\* can be used, again and again, whether or not the auto print has been
\* triggered and whether or not the profile fetch and the logo have settled,
\* and each use runs the print lifecycle
C18_ManualPrintRepeatable ==
    /\ []((Live /\ View(rendered) = "bill" /\ manualPrints < MaxManualPrints)
             => ENABLED handlePrint)
    /\ [][manualPrints' # manualPrints =>
             /\ manualPrints' = manualPrints + 1
             /\ printing' = "manual" /\ documentTitle' = ""
             /\ Len(listeners') = Len(listeners) + 1]_vars

\* C18 witness: a second manual print is running after the auto print was triggered
C18_Witness ==
    /\ billPc = "mounted" /\ printing = "manual" /\ manualPrints = 2
    /\ autoPrintTriggered

\* C18 witness: a manual print is running while the profile fetch is pending
C18_WitnessNotSettled ==
    /\ billPc = "mounted" /\ printing = "manual"
    /\ ~profileLoaded /\ fetches.profile = "inflight"

\* C19: the document title is blank only while a print is in progress, and once
\* every print that was started has received afterprint the title is the one
\* the document had before the first print
C19_TitleSuppression ==
    /\ documentTitle = "" => printing # "no"
    /\ printing = "no" => documentTitle = OriginalTitle /\ listeners = <<>>

\* C19 witness: two prints, one after the other, are over and the title is back
C19_Witness ==
    /\ printing = "no" /\ manualPrints = 2 /\ listeners = <<>>
    /\ documentTitle = OriginalTitle

\* the afterprint event is delivered in this step
PrintFinishes == printing # "no" /\ printing' = "no"
\* one of the prints that are finishing was started by the auto-print timer
AutoPrintPending == \E k \in DOMAIN listeners : listeners[k].afterPrint = "close"

\* C20: window.close() is called when, and only when, a print started by the
\* auto-print timer receives afterprint, or Close is pressed, and it closes the
\* window if the browser lets a script close it (a window a script opened);
\* the end of a manual print leaves the window and the view as they are
C20_ClosedAfterAutoPrintOrClose ==
    [][/\ (PrintFinishes /\ AutoPrintPending) =>
              billPc' = (IF billClosable THEN "closed" ELSE billPc)
       /\ (PrintFinishes /\ ~AutoPrintPending) =>
              /\ billPc' = billPc /\ rendered' = rendered /\ BillState' = BillState
       /\ (billPc' = "closed" /\ billPc # "closed") =>
              /\ billClosable
              /\ \/ PrintFinishes /\ AutoPrintPending
                 \/ /\ printing' = printing /\ billPc = "mounted"
                    /\ View(rendered) \in {"bill", "notfound"}]_vars

\* C20 as stated: the window is closed whenever a print started by the
\* auto-print timer receives afterprint
C20_Original == [][(PrintFinishes /\ AutoPrintPending) => billPc' = "closed"]_vars

\* C20 witness: the automatic print is over and has closed the window
C20_Witness ==
    /\ billPc = "closed" /\ autoPrints = 1 /\ manualPrints = 0 /\ printing = "no"
    /\ listeners = <<>>

\* C20 witness: a manual print is over, the invoice is still on screen
C20_WitnessManual ==
    /\ billPc = "mounted" /\ billClosable /\ manualPrints = 1 /\ autoPrints = 0
    /\ printing = "no" /\ View(rendered) = "bill"

----------------------------------------------------------------------------
(* Further claims about the invoice view *)

\* the logo is absent, or its image has delivered its load or error event
LogoSettled == logoUrl(BillState) = Str0 \/ imgSt = "done"

\* C21: once the sale is loaded, the profile fetch has settled (either way) and
\* the logo is absent, loaded or errored, the view becomes print-ready
C21_FailureNeverBlocksReadiness ==
    (billPc = "mounted" /\ sale # NoSale /\ fetches.profile = "done" /\ LogoSettled)
        ~> (PrintReady \/ billPc # "mounted")

\* C21 witness: the view is print-ready after the logo image failed to load
C21_Witness ==
    /\ billPc = "mounted" /\ PrintReady /\ rendered = BillState /\ ~effectsPending
    /\ logoError /\ imgSt = "done" /\ fetches.profile = "done"

\* C21 witness: the view is print-ready after the profile fetch failed
C21_WitnessProfileFailed ==
    /\ billPc = "mounted" /\ PrintReady /\ rendered = BillState /\ ~effectsPending
    /\ companyProfile.isNull /\ fetches.profile = "done"

\* C22: when the invoice view is unmounted while the auto-print delay is
\* pending the timer is cancelled, and no print is started for a view that has
\* been unmounted
C22_UnmountCancelsTimer ==
    /\ [](billPc = "unmounted" => timer = "none")
    /\ [][billPc = "unmounted" =>
             /\ autoPrints' = autoPrints /\ manualPrints' = manualPrints
             /\ Len(listeners') <= Len(listeners)]_vars

\* C22 witness: the view was unmounted after the auto-print effect had started
\* the timer and before the timer fired or a later render cleared it
C22_Witness ==
    /\ billPc = "unmounted" /\ autoPrint /\ autoPrintTriggered
    /\ ~rendered.autoPrintTriggered /\ ~effectsPending
    /\ autoPrints = 0 /\ manualPrints = 0 /\ timer = "none"

----------------------------------------------------------------------------
(* Claims about the tax breakdown *)

\* C23: for every line item cgst and sgst are each half of gst_amount, cgst_rate
\* and sgst_rate each half of gst_rate, and cgst + sgst is gst_amount exactly
\* (100.00 at 18 gives 50, 50, 9, 9)
C23_GstSplitExact ==
    gstPc = "done" =>
        /\ gstOut.cgst = ToFloat(Hundredths(gstItem.gst_amount), 200, 0)
        /\ gstOut.sgst = gstOut.cgst
        /\ gstOut.cgstRate = ToFloat(Hundredths(gstItem.gst_rate), 200, 0)
        /\ gstOut.sgstRate = gstOut.cgstRate
        /\ Add(gstOut.cgst, gstOut.sgst) = parseFloat(gstItem.gst_amount)
        /\ Add(gstOut.cgstRate, gstOut.sgstRate) = parseFloat(gstItem.gst_rate)
        /\ (gstItem.gst_amount = Dec(100, 0) /\ gstItem.gst_rate = Dec(18, 0)) =>
               /\ gstOut.cgst = ToFloat(50, 1, 0) /\ gstOut.sgst = ToFloat(50, 1, 0)
               /\ gstOut.cgstRate = ToFloat(9, 1, 0) /\ gstOut.sgstRate = ToFloat(9, 1, 0)

\* C23 witness: the breakdown of gst_amount 100.00 at rate 18
C23_Witness ==
    /\ gstPc = "done"
    /\ gstItem = [gst_amount |-> Dec(100, 0), gst_rate |-> Dec(18, 0),
                  total_amount |-> Dec(118, 0)]
    /\ gstOut.cgst = Float(3200, -6) /\ gstOut.cgstRate = Float(2304, -8)

\* C23 witness: the breakdown of an odd number of hundredths, 7.05 at rate 5
C23_WitnessOdd ==
    /\ gstPc = "done"
    /\ gstItem = [gst_amount |-> Dec(7, 5), gst_rate |-> Dec(5, 0),
                  total_amount |-> Dec(118, 0)]
    /\ Add(gstOut.cgst, gstOut.sgst) = parseFloat(Dec(7, 5))
    /\ gstOut.cgst # ToFloat(353, 100, 0) /\ gstOut.cgst # ToFloat(352, 100, 0)

\* C24: for a line item with gst_amount 0 and gst_rate 0 the breakdown is
\* cgst = sgst = cgst_rate = sgst_rate = 0, each of them a number
C24_ZeroGst ==
    (gstPc = "done" /\ Hundredths(gstItem.gst_amount) = 0) =>
        /\ DOMAIN gstOut = {"cgst", "sgst", "cgstRate", "sgstRate"}
        /\ gstOut.cgst = Zero /\ gstOut.sgst = Zero
        /\ Hundredths(gstItem.gst_rate) = 0 =>
               gstOut.cgstRate = Zero /\ gstOut.sgstRate = Zero

\* C24 witness: the breakdown of a line with gst_amount 0.00 and gst_rate 0
C24_Witness ==
    /\ gstPc = "done"
    /\ gstItem = [gst_amount |-> Dec(0, 0), gst_rate |-> Dec(0, 0),
                  total_amount |-> Dec(118, 0)]
    /\ gstOut.cgst = Float(0, 0) /\ gstOut.cgstRate = Float(0, 0)

\* the response of the cached GET r is stored in the list cache in this step
StoresResponse(r) ==
    /\ reqs[r].cached /\ reqs[r].st = "sent" /\ reqs'[r].st = "resolved"
    /\ buildCacheKey(reqs[r].url, reqs[r].cfg) \in DOMAIN listCache'
    /\ listCache'[buildCacheKey(reqs[r].url, reqs[r].cfg)].response = reqs'[r].out.response

\* C25: after a non-GET has been sent the cache never receives the response of
\* a GET that was sent before that non-GET, and a cached GET is never answered
\* with such a response
C25_NoStaleListAfterWrite ==
    [][\A r \in ReqIds : reqs[r].beforeWrite => ~StoresResponse(r)]_vars

\* C25 witness: a write was sent while a cached GET was waiting for its
\* response
C25_Witness ==
    \E r, w \in ReqIds :
        /\ reqs[r].cached /\ reqs[r].st = "sent" /\ reqs[r].beforeWrite
        /\ reqs[w].method = "post" /\ reqs[w].st = "sent" /\ reqs[w].purged
        /\ listCache = EmptyMap

----------------------------------------------------------------------------
(* Further claims about the list cache *)

\* the warm-up has fetched the url successfully
Warmed(url) == \E i \in WarmLines : WarmList[i].url = url /\ warmFetch[i] = "ok"

\* C26: after the warm-up has fetched an endpoint successfully, the list() of
\* that endpoint, called with no search term within the TTL and with no non-GET
\* in between, is served from the cache without a network call
C26_WarmUpServesList ==
    \A r \in ReqIds :
        (reqs[r].st # "idle" /\ reqs[r].cached /\ Warmed(reqs[r].url)) =>
            reqs[r].sends = 0

\* C26 witness: subStocksAPI.list() is answered from the entry of the warm-up
C26_Witness ==
    \E r \in ReqIds :
        /\ reqs[r].st = "resolved" /\ reqs[r].cached /\ reqs[r].url = "/sub-stocks/"
        /\ reqs[r].sends = 0 /\ Warmed("/sub-stocks/") /\ reqs[r].seen = "none"

----------------------------------------------------------------------------
(* Claims about the invoice view and its route *)

RefreshCalls == {r \in ReqIds : reqs[r].st = "refreshing"}
\* the refresh calls issued for the calls in progress
RefreshesIssued(S) == Cardinality({r \in S : reqs[r].refreshes = 1})
\* request r receives its first 401 while a refresh token is stored
FirstUnauthorized(r) ==
    /\ reqs[r].st = "sent" /\ reqs[r].got401 = "" /\ refresh_token # NoToken
    /\ reqs'[r].got401 = "token"

\* C28: the recovery from a 401 is per request: a request that receives its
\* first 401 while a refresh token is stored issues a refresh call of its own,
\* whatever the number of refresh calls already in flight, so the requests
\* that wait for a refresh are as many as the refresh calls issued for them.
C28_RefreshPerRequest ==
    /\ [](\A r \in RefreshCalls : reqs[r].refreshes = 1)
    /\ [](RefreshesIssued(RefreshCalls) = Cardinality(RefreshCalls))
    /\ [][\A r \in ReqIds : FirstUnauthorized(r) =>
            /\ reqs'[r].refreshes = reqs[r].refreshes + 1
            /\ RefreshCalls' = RefreshCalls \cup {r}
            /\ Cardinality(RefreshCalls') = Cardinality(RefreshCalls) + 1]_vars
C28_Witness ==
    /\ Cardinality(RefreshCalls) >= 2
    /\ RefreshesIssued(RefreshCalls) = Cardinality(RefreshCalls)
    /\ \A r \in RefreshCalls : reqs[r].got401 = "token" /\ reqs[r].sends = 1
    /\ refresh_token # NoToken

\* a stored token is removed, or the browser is sent to the login page
SignedOut ==
    \/ access_token # NoToken /\ access_token' = NoToken
    \/ refresh_token # NoToken /\ refresh_token' = NoToken
    \/ location # "/login" /\ location' = "/login"
\* the refresh call of request r fails
FailedRefresh(r) ==
    /\ reqs[r].st = "refreshing"
    /\ reqs'[r].st = "rejected" /\ reqs'[r].out = Rejected("refreshError", 0)
\* a transmission of request r ends in an error that is passed to the caller:
\* a failed replay, an error that is not a 401, a network error, or a 401
\* with no refresh token stored
ErrorPassedOn(r) == reqs[r].st = "sent" /\ reqs'[r].st = "rejected"

\* C29: the stored tokens are removed and the browser is sent to /login only
\* by a failed refresh call; an error of a transmission that is passed to the
\* caller (a failed replay, a second 401 included, an error status other
\* than 401, a network error) leaves both tokens and the location as they were.
C29_SignOutOnlyOnFailedRefresh ==
    [][/\ SignedOut => \E r \in ReqIds : FailedRefresh(r)
       /\ \A r \in ReqIds : ErrorPassedOn(r) =>
              UNCHANGED <<access_token, refresh_token, location>>
       /\ UNCHANGED <<access_token, refresh_token, location>>
            \/ (\E r \in ReqIds : FailedRefresh(r))
            \/ (\E r \in ReqIds : reqs[r].st = "refreshing" /\ reqs'[r].st = "sent"
                                    /\ UNCHANGED <<refresh_token, location>>)]_vars
\* a replay answered with a second 401 has been passed to the caller, with
\* the tokens of the successful refresh still stored
C29_Witness ==
    \E r \in ReqIds :
        /\ reqs[r].st = "rejected" /\ reqs[r].sends = 2 /\ reqs[r].netErr = "e401"
        /\ reqs[r].out = Rejected("e401", 2)
        /\ access_token = reqs[r].tokenAtSend /\ access_token # NoToken
        /\ refresh_token = "r0" /\ location = "/"
C29_WitnessOtherErrors ==
    \E r \in ReqIds :
        /\ reqs[r].st = "rejected" /\ reqs[r].netErr \in {"e500", "network"}
        /\ access_token # NoToken /\ refresh_token = "r0" /\ location = "/"

\* the refresh call of request r is issued
RefreshIssued(r) == reqs[r].st = "sent" /\ reqs'[r].st = "refreshing"
\* the refresh call of request r succeeds and the request is replayed
RefreshSucceeded(r) == reqs[r].st = "refreshing" /\ reqs'[r].st = "sent"

\* C30: a successful refresh stores the access token the refresh endpoint
\* returned and nothing else: the refresh token and the location stay, and
\* the refresh call empties the list cache neither when it is issued nor when
\* it is answered (the cache changes in that step only if the request that is
\* replayed is not a GET, by the request interceptor of the replay).
C30_RefreshOverwritesAccessOnly ==
    [][\A r \in ReqIds :
        /\ RefreshIssued(r) =>
              UNCHANGED <<access_token, refresh_token, location, listCache>>
        /\ RefreshSucceeded(r) =>
              /\ access_token' = NewToken(r)
              /\ access_token' \notin {NoToken, access_token}
              /\ reqs'[r].tokenAtSend = access_token'
              /\ UNCHANGED <<refresh_token, location>>
              /\ reqs[r].method = "get" => UNCHANGED listCache]_vars
\* a GET is being replayed with the new access token, the refresh token and
\* the list cache still in place
C30_Witness ==
    \E r \in ReqIds :
        /\ reqs[r].st = "sent" /\ reqs[r].sends = 2 /\ reqs[r].method = "get"
        /\ reqs[r].refreshes = 1
        /\ access_token = reqs[r].tokenAtSend /\ access_token \notin {NoToken, "a0"}
        /\ refresh_token = "r0" /\ location = "/"
        /\ listCache # EmptyMap

\* ---------------------------------------------------------------------------
\* Further claims about what the list cache holds
\* ---------------------------------------------------------------------------

\* the key of the call in record r
KeyOf(r) == buildCacheKey(reqs[r].url, reqs[r].cfg)
\* the cached GET in record r ends in a rejection: of its transmission, of its
\* replay, or of its refresh call
CachedGetRejected(r) ==
    /\ reqs[r].cached /\ reqs[r].st \in {"sent", "refreshing"}
    /\ reqs'[r].st = "rejected"
\* the cached GET in record r receives its response
CachedGetResolved(r) ==
    reqs[r].cached /\ reqs[r].st = "sent" /\ reqs'[r].st = "resolved"
\* cachedGet is called and takes record r
CachedGetCalled(r) == reqs[r].st = "idle" /\ reqs'[r].st # "idle" /\ reqs'[r].cached

\* C31: only successful responses are cached.  A cached GET that is rejected
\* leaves the cache as it was, and so does one that starts a refresh; a cached
\* GET called while its key has no fresh entry is sent to the network; the
\* entry a cached GET stores is the response it resolves with, which for a
\* call that recovered from a 401 is the response of the replay.
C31_OnlySuccessCached ==
    [][\A r \in ReqIds :
        /\ CachedGetRejected(r) => UNCHANGED listCache
        /\ (reqs[r].cached /\ reqs[r].st = "sent" /\ reqs'[r].st = "refreshing")
              => UNCHANGED listCache
        /\ CachedGetResolved(r) =>
              /\ listCache'[KeyOf(r)].response = reqs'[r].out.response
              /\ reqs'[r].out.kind = "response"
              /\ reqs'[r].sends = reqs[r].sends
              /\ \A k \in DOMAIN listCache \ {KeyOf(r)} :
                     k \in DOMAIN listCache' /\ listCache'[k] = listCache[k]
        /\ (CachedGetCalled(r)
              /\ ~CacheHit(listCache, buildCacheKey(reqs'[r].url, reqs'[r].cfg),
                           now, LIST_CACHE_TTL_MS))
              => reqs'[r].st = "sent" /\ reqs'[r].sends = 1]_vars
\* a cached GET recovered from a 401 and the cache holds the replay's response
C31_Witness ==
    \E r \in ReqIds :
        /\ reqs[r].cached /\ reqs[r].st = "resolved"
        /\ reqs[r].sends = 2 /\ reqs[r].refreshes = 1 /\ reqs[r].got401 = "token"
        /\ KeyOf(r) \in DOMAIN listCache
        /\ listCache[KeyOf(r)].response = reqs[r].out.response
\* a cached GET was rejected and its key has no entry
C31_WitnessRejected ==
    \E r \in ReqIds :
        /\ reqs[r].cached /\ reqs[r].st = "rejected"
        /\ KeyOf(r) \notin DOMAIN listCache
\* a cached GET was rejected while its key holds the entry of another call
C31_WitnessRejectedEntryKept ==
    \E r \in ReqIds :
        /\ reqs[r].cached /\ reqs[r].st = "rejected"
        /\ KeyOf(r) \in DOMAIN listCache
        /\ listCache[KeyOf(r)].response # NoResponse

\* JSON.stringify(config.params), or '' for a call without params
Serialized(cfg) == IF cfg.hasParams THEN JSONStringify(cfg) ELSE ""
\* the network GET that produced a response
ProducedBy(response) == response.config
\* a response produced by a network GET for the path and the serialized params
\* of the call in record r
OwnResponse(r, response) ==
    /\ ProducedBy(response).method = "get"
    /\ ProducedBy(response).url = reqs[r].url
    /\ Serialized(ProducedBy(response).cfg) = Serialized(reqs[r].cfg)

\* C32: cache entries are isolated by key.  Two calls have the same key exactly
\* when they agree in path and in the serialization of their params; every
\* entry was produced by a network GET for the path and params of its key;
\* what a cached GET resolves with, from the cache or from the network, was
\* produced by a GET for its own path and serialized params; and a cached GET
\* neither adds, removes nor changes the entry of any key but its own.
C32_EntriesIsolatedByKey ==
    /\ [](\A c \in KeyCalls, d \in KeyCalls :
            (buildCacheKey(c[1], c[2]) = buildCacheKey(d[1], d[2]))
               <=> (c[1] = d[1] /\ Serialized(c[2]) = Serialized(d[2])))
    /\ [](\A k \in DOMAIN listCache :
            \E c \in KeyCalls :
                /\ k = c[1] \o "|" \o Serialized(c[2])
                /\ ProducedBy(listCache[k].response).method = "get"
                /\ ProducedBy(listCache[k].response).url = c[1]
                /\ Serialized(ProducedBy(listCache[k].response).cfg) = Serialized(c[2]))
    /\ [](\A r \in ReqIds :
            (reqs[r].cached /\ reqs[r].st = "resolved")
                => OwnResponse(r, reqs[r].out.response))
    /\ [][\A r \in ReqIds :
            (reqs[r].cached \/ reqs'[r].cached) /\ reqs'[r] # reqs[r] /\ reqs'[r].st # "idle" =>
                \A c \in KeyCalls :
                    LET k == c[1] \o "|" \o Serialized(c[2]) IN
                    (c[1] # reqs'[r].url \/ Serialized(c[2]) # Serialized(reqs'[r].cfg)) =>
                        /\ (k \in DOMAIN listCache') = (k \in DOMAIN listCache)
                        /\ k \in DOMAIN listCache => listCache'[k] = listCache[k]]_vars
\* list("a") of the products is served from the cache while the entries of
\* list() and of the call without config for the same path are present
C32_Witness ==
    \E r \in ReqIds :
        /\ reqs[r].cached /\ reqs[r].st = "resolved" /\ reqs[r].sends = 0
        /\ reqs[r].url = "/products/" /\ reqs[r].cfg = ParamsOf("a")
        /\ OwnResponse(r, reqs[r].out.response)
        /\ {"/products/|", "/products/|{}", "/products/|{\"search\":\"a\"}"}
              \subseteq DOMAIN listCache

\* a GET takes record r and is sent or served: api.get or cachedGet is called
GetCalled(r) == reqs[r].st = "idle" /\ reqs'[r].st # "idle" /\ reqs'[r].method = "get"
\* the GET in record r is answered, with a response or with an error
GetAnswered(r) ==
    reqs[r].st = "sent" /\ reqs[r].method = "get" /\ reqs'[r].st \in {"resolved", "rejected"}
\* every entry but that of key k is as it was
OthersKept(k) ==
    \A j \in DOMAIN listCache \ {k} : j \in DOMAIN listCache' /\ listCache'[j] = listCache[j]

\* C33: a GET never invalidates.  Calling api.get or cachedGet leaves the
\* cache as it is; the answer of a GET that is not cached leaves it as it is;
\* the answer of a cached GET removes no entry and changes at most the entry
\* of its own key.
C33_GetNeverInvalidates ==
    [][\A r \in ReqIds :
        /\ GetCalled(r) => UNCHANGED listCache
        /\ (GetAnswered(r) /\ ~reqs[r].cached) => UNCHANGED listCache
        /\ (GetAnswered(r) /\ reqs[r].cached) =>
              /\ DOMAIN listCache \subseteq DOMAIN listCache'
              /\ DOMAIN listCache' \subseteq DOMAIN listCache \cup {KeyOf(r)}
              /\ OthersKept(KeyOf(r))]_vars
\* a cached GET that missed has stored its entry next to the entry of another
\* key, and a GET that is not cached is waiting for its response
C33_Witness ==
    \E r \in ReqIds, q \in ReqIds :
        /\ reqs[r].cached /\ reqs[r].st = "resolved" /\ reqs[r].sends = 1
        /\ KeyOf(r) \in DOMAIN listCache
        /\ DOMAIN listCache \ {KeyOf(r)} # {}
        /\ ~reqs[q].cached /\ reqs[q].method = "get" /\ reqs[q].st = "sent"

\* the age of the entry of key k
Age(k) == now - listCache[k].timestamp
\* the key of the call that takes record r in this step
CalledKey(r) == buildCacheKey(reqs'[r].url, reqs'[r].cfg)
\* the call that takes record r in this step is answered from the cache
ServedFromCache(r) ==
    /\ reqs'[r].st = "resolved" /\ reqs'[r].sends = 0
    /\ CalledKey(r) \in DOMAIN listCache
    /\ reqs'[r].out = Resolved(listCache[CalledKey(r)].response)
    /\ UNCHANGED listCache

\* C34: a cached GET is served from the cache exactly when its key has an
\* entry whose age is strictly less than the TTL; otherwise, at an age of
\* exactly the TTL included, it is sent to the network.  The timestamp of an
\* entry is the time at which its response arrived.
C34_ServedIffYoungerThanTtl ==
    [][\A r \in ReqIds :
        /\ CachedGetCalled(r) =>
              /\ ServedFromCache(r)
                    <=> (CalledKey(r) \in DOMAIN listCache
                         /\ Age(CalledKey(r)) < LIST_CACHE_TTL_MS)
              /\ ~ServedFromCache(r) => (reqs'[r].st = "sent" /\ reqs'[r].sends = 1)
        /\ CachedGetResolved(r) => listCache'[KeyOf(r)].timestamp = now]_vars
\* a cached GET was sent to the network while its key holds an entry whose
\* age is exactly the TTL
C34_Witness ==
    \E r \in ReqIds :
        /\ reqs[r].cached /\ reqs[r].st = "sent" /\ reqs[r].sends = 1
        /\ KeyOf(r) \in DOMAIN listCache
        /\ Age(KeyOf(r)) = LIST_CACHE_TTL_MS
\* a cached GET was served from an entry that arrived after the clock had
\* advanced, at an age one step short of the TTL
C34_WitnessServed ==
    \E r \in ReqIds :
        /\ reqs[r].cached /\ reqs[r].st = "resolved" /\ reqs[r].sends = 0
        /\ KeyOf(r) \in DOMAIN listCache
        /\ listCache[KeyOf(r)].timestamp = TickMs
        /\ Age(KeyOf(r)) = LIST_CACHE_TTL_MS - TickMs

\* ---------------------------------------------------------------------------
\* Claims about the states of the invoice view
\* ---------------------------------------------------------------------------

\* fetchBill has run its finally block in the mounted page
SaleFetchSettled == billPc = "mounted" /\ fetches.bill \in SaleOutcomes
\* the page is gone: the user left it or the window was closed
PageGone == billPc \in {"unmounted", "closed"}

\* C35: once the sale fetch of a view has settled, the loading flag is off,
\* and the view comes to show "Bill not found" or the invoice (unless the page
\* is left first), whether or not the company profile fetch is ever answered;
\* once shown, the view does not return to the spinner.
C35_LoadingEnds ==
    /\ [](SaleFetchSettled => ~loading)
    /\ SaleFetchSettled ~> (View(rendered) \in {"notfound", "bill"} \/ PageGone)
    /\ [][(billPc = "mounted" /\ billPc' = "mounted" /\ routeId' = routeId
            /\ View(rendered) \in {"notfound", "bill"})
              => View(rendered') = View(rendered)]_vars
\* "Bill not found" is shown while the company profile fetch is unanswered
C35_Witness ==
    /\ billPc = "mounted" /\ fetches.bill \in {"fail", "empty"}
    /\ fetches.profile = "inflight" /\ ~profileLoaded
    /\ View(rendered) = "notfound"
\* the invoice is shown while the company profile fetch is unanswered
C35_WitnessReady ==
    /\ billPc = "mounted" /\ fetches.bill = "ok"
    /\ fetches.profile = "inflight" /\ ~profileLoaded
    /\ View(rendered) = "bill"

\* the mounted page shows "Bill not found"
InNotFound == billPc = "mounted" /\ View(rendered) = "notfound"

\* C36: "Bill not found" is terminal for the view.  While it is shown no
\* auto-print timer is set or due, the Print Bill button is not there, and
\* the Close button is; no step starts a print (no listener is registered, no
\* print is counted, a pending print can only finish); and the page shows
\* "Bill not found" for as long as it is mounted.
C36_NotFoundTerminal ==
    /\ [](InNotFound =>
            /\ timer = "none"
            /\ ~ENABLED TimerFire
            /\ ~ENABLED handlePrint
            /\ ENABLED Close)
    /\ [][InNotFound =>
            /\ Len(listeners') <= Len(listeners)
            /\ autoPrints' = autoPrints /\ manualPrints' = manualPrints
            /\ printing' \in {printing, "no"}
            /\ timer' = "none"
            /\ (billPc' = "mounted" /\ routeId' = routeId) => View(rendered') = "notfound"]_vars
\* "Bill not found" in auto-print mode, profile settled, logo ready, the
\* effects of the render run: nothing was latched and no timer is set
C36_Witness ==
    /\ InNotFound /\ autoPrint /\ rendered.profileLoaded /\ logoReady(rendered)
    /\ ~effectsPending /\ flushed = rendered
    /\ ~autoPrintTriggered /\ timer = "none" /\ printing = "no" /\ autoPrints = 0

\* ---------------------------------------------------------------------------
\* Claims about the amounts of a row
\* ---------------------------------------------------------------------------

\* the amounts of the rendered row as numbers
RowTotal == parseFloat(gstItem.total_amount)
RowGst == parseFloat(gstItem.gst_amount)
\* the hundredths the row shows: taxableValue.toFixed(2), cgst.toFixed(2),
\* sgst.toFixed(2) and parseFloat(item.total_amount).toFixed(2), lines 589-604
ShownTaxable == toFixed2(gstTaxable)
ShownCgst == toFixed2(gstOut.cgst)
ShownSgst == toFixed2(gstOut.sgst)
ShownTotal == toFixed2(RowTotal)
\* a rendered row whose amounts the numbers of the model resolve to the cent
SmallRow == gstPc = "done" /\ gstItem \in ItemsByTotal

\* C37: for every rendered row the taxable value is total_amount less
\* gst_amount, the taxable value and gst_amount add up to total_amount, and
\* the taxable value, cgst and sgst add up to total_amount: as the numbers the
\* row computes, and as the amounts it shows.
C37_RowAddsUp ==
    SmallRow =>
        /\ gstTaxable = Sub(RowTotal, RowGst)
        /\ ShownTaxable = Hundredths(gstItem.total_amount) - Hundredths(gstItem.gst_amount)
        /\ Add(gstTaxable, RowGst) = RowTotal
        /\ Add(Add(gstTaxable, gstOut.cgst), gstOut.sgst) = RowTotal
        /\ ShownTaxable + ShownCgst + ShownSgst = ShownTotal
\* a row of total 0.30 and tax 0.15: it shows a taxable value of 0.15, and a
\* cgst and an sgst that do not add up to 0.15
C37_Witness ==
    /\ SmallRow
    /\ gstItem.total_amount = Dec(0, 30) /\ gstItem.gst_amount = Dec(0, 15)
    /\ gstTaxable = Sub(RowTotal, RowGst)
    /\ ShownTaxable = 15 /\ ShownTotal = 30
    /\ ShownCgst = ShownSgst
    /\ ShownTaxable + ShownCgst + ShownSgst # ShownTotal
\* a row whose taxable value and tax amount, added as numbers, miss the total
C37_WitnessNumbers ==
    /\ SmallRow
    /\ gstTaxable = Sub(RowTotal, RowGst)
    /\ Add(gstTaxable, RowGst) # RowTotal
    /\ ShownTaxable = Hundredths(gstItem.total_amount) - Hundredths(gstItem.gst_amount)

\* ---------------------------------------------------------------------------
\* Claims about the URL of a media file
\* ---------------------------------------------------------------------------

\* the API URL of the build: the configured one, or the default
ConfiguredApiUrl == IF mediaEnv # Str0 THEN mediaEnv ELSE DefaultApiUrl
\* the beginnings of a string
Prefixes(s) == {SubSeq(s, 1, k) : k \in 0..Len(s)}
\* url is base followed by "/api" or by "/api/"
ApiSuffixed(url, base) ==
    \/ url = base \o <<"/", "a", "p", "i">>
    \/ url = base \o <<"/", "a", "p", "i", "/">>

\* C39: buildMediaUrl returns '' for a missing or empty path, the path itself
\* when it starts with 'http', and otherwise the path after the API URL less
\* one trailing '/api' or '/api/' (the whole API URL when it has no such
\* ending); for the API URL '/api' that is the path alone.
C39_BuildMediaUrl ==
    mediaPc = "done" =>
        IF mediaPath.missing \/ Len(mediaPath.text) = 0 THEN mediaOut = Str0
        ELSE IF Len(mediaPath.text) >= 4
                /\ mediaPath.text[1] = "h" /\ mediaPath.text[2] = "t"
                /\ mediaPath.text[3] = "t" /\ mediaPath.text[4] = "p"
        THEN mediaOut = mediaPath.text
        ELSE /\ \A base \in Prefixes(ConfiguredApiUrl) :
                    ApiSuffixed(ConfiguredApiUrl, base) => mediaOut = base \o mediaPath.text
             /\ (\A base \in Prefixes(ConfiguredApiUrl) : ~ApiSuffixed(ConfiguredApiUrl, base))
                    => mediaOut = ConfiguredApiUrl \o mediaPath.text
             /\ mediaEnv = <<"/", "a", "p", "i">> => mediaOut = mediaPath.text
\* a relative path under the API URL '/api': the path alone
C39_Witness ==
    /\ mediaPc = "done"
    /\ mediaEnv = <<"/", "a", "p", "i">> /\ mediaPath = Path(<<"/", "m">>)
    /\ mediaOut = <<"/", "m">>
\* a relative path under the default API URL
C39_WitnessDefault ==
    /\ mediaPc = "done" /\ mediaEnv = Str0 /\ mediaPath = Path(<<"/", "m">>)
    /\ mediaOut = DropLast(DefaultApiUrl, 4) \o <<"/", "m">>
    /\ Len(mediaOut) = Len(DefaultApiUrl) - 2
\* an API URL that ends in '/api/api' loses one '/api'
C39_WitnessOneSuffix ==
    /\ mediaPc = "done"
    /\ mediaEnv = <<"h", "/", "a", "p", "i", "/", "a", "p", "i">>
    /\ mediaPath = Path(<<"m">>)
    /\ mediaOut = <<"h", "/", "a", "p", "i", "m">>

\* ---------------------------------------------------------------------------
\* Claims about the header and the settings page
\* ---------------------------------------------------------------------------

\* a save of shop s is in flight
Saving(s) == shopSaves[s] > 0

\* C38: while a save of a shop is in flight the Save button of that shop is
\* disabled, whatever saves of other shops start or end meanwhile.
C38_SaveStaysDisabled ==
    \A s \in ShopIds : Saving(s) => SaveDisabled(s)
\* the save of one shop is in flight and its button is enabled, because the
\* save of another shop was started after it
C38_Witness ==
    \E s \in ShopIds, t \in ShopIds :
        /\ s # t /\ Saving(s) /\ Saving(t)
        /\ savingShopId = t /\ ~SaveDisabled(s)
\* the save of one shop is in flight and no button is disabled, because the
\* save of another shop has ended
C38_WitnessAfterOther ==
    \E s \in ShopIds :
        /\ Saving(s) /\ savingShopId = NoShop
        /\ \A t \in ShopIds \ {s} : ~Saving(t)
\* two saves of the same shop are in flight
C38_WitnessTwice ==
    \E s \in ShopIds : shopSaves[s] = 2

\* C40: the header and the settings page agree on who is an admin: a user
\* whom the header offers the Settings entry is an admin for the settings
\* page, which loads the settings for that user; a user who is not an admin
\* for the settings page causes no fetch of the company profile and the shops.
C40_AdminGatingConsistent ==
    settingsPc # "init" =>
        /\ HeaderIsAdmin(user) => (SettingsIsAdmin(user) /\ settingsPc \in {"fetching", "ready"})
        /\ ~SettingsIsAdmin(user) => (settingsPc \in {"waiting", "denied"} /\ shops = {})
\* the role "Admin": the header offers Settings, the page says "Admin settings only"
C40_Witness ==
    /\ user = User(RoleText(<<"A", "d", "m", "i", "n">>))
    /\ HeaderIsAdmin(user) /\ ~SettingsIsAdmin(user)
    /\ settingsPc = "denied" /\ shops = {}
\* a role object { value: 'admin' }: the same disagreement
C40_WitnessObject ==
    /\ user = User(RoleObject(Path(Admin), NoPath, NoPath))
    /\ HeaderIsAdmin(user) /\ ~SettingsIsAdmin(user)
    /\ settingsPc = "denied"
\* the role "admin": both agree and the settings are loaded
C40_WitnessAgree ==
    /\ user = User(RoleText(Admin))
    /\ HeaderIsAdmin(user) /\ SettingsIsAdmin(user) /\ settingsPc = "ready" /\ shops = ShopIds

====
